---- MODULE Spec2Model ----
(***************************************************************************)
(* FxFixParser: the parsing and structural-decoding core.                  *)
(*   FixParser.parse             (src/src/fxfixparser/core/parser.py)      *)
(*   FixMessage.get_structured_fields (src/src/fxfixparser/core/message.py)*)
(* Text is a sequence of byte values; a field is [tag, raw_value].         *)
(***************************************************************************)
EXTENDS Integers, Sequences, FiniteSets, TLC

VARIABLES
    \* ---- FixParser.parse ----
    raw_message,   \* the argument of parse
    kwargs,        \* keyword arguments given to ParserConfig(...)
    config,        \* ParserConfig
    pc,            \* "ready" (call pending) | "done" (call finished)
    reached,       \* last phase of parse that ran
    normalized,    \* result of _normalize_delimiter
    fields,        \* flat field list built by _build_fields
    outcome,       \* "none" | "ok" | exception class name
    error,         \* <<>> or <<exception record>>
    returned,      \* <<>> or <<FixMessage handed to the caller>>
    prev,          \* the previous call's input and result (for resubmission)
    edit,          \* how raw_message was derived from prev.raw_message
    dictionary,    \* FixParser.dictionary: tag -> FixFieldDefinition
    venue,         \* the venue argument of parse: <<>> (None) or <<handler>>
    definitions,   \* FixField.definition of each element of fields
    \* ---- FixMessage.get_structured_fields ----
    msg_fields,    \* FixMessage.fields of the message being reconstructed
    gpc,           \* "idle" | "outer" | "inner" | "done"
    i,             \* position index, 0-based as in the code
    result,        \* list of StructuredField
    group,         \* the RepeatingGroup under construction
    count,         \* declared count of the group under construction
    entry_index,
    current_entry,
    seen_tags,
    warnings,      \* logger.warning calls, in order
    calls,         \* calls of get_structured_fields begun on msg_fields
    first_result,  \* <<>> or <<what the first call returned>>
    \* ---- accessor calls on a FixMessage or a FixField ----
    default_instance, \* TagDictionary._default_instance: <<>> (None) or <<dictionary>>
    constructed,   \* how many default dictionaries have been built
    callers,       \* each thread's position in TagDictionary.default()
    message,       \* the FixMessage the views are taken of
    fix_field,     \* the FixField the property is read from
    op,            \* name of the last accessor called
    arg,           \* its tag argument
    ret            \* what it returned

parseVars == <<raw_message, config, pc, reached, normalized, fields, outcome,
               error, returned, prev, edit, dictionary, venue, definitions, kwargs>>
defaultVars == <<default_instance, constructed, callers>>
accessVars == <<default_instance, constructed, callers, message, fix_field, op, arg, ret>>
callVars == <<calls, first_result>>
groupVars == <<msg_fields, gpc, i, result, group, count, entry_index,
               current_entry, seen_tags, warnings, calls, first_result>>
vars == <<raw_message, config, pc, reached, normalized, fields, outcome,
          error, returned, prev, edit, dictionary, venue, definitions, kwargs,
          msg_fields, gpc, i, result, group, count, entry_index,
          current_entry, seen_tags, warnings, calls, first_result,
          default_instance, constructed, callers, message, fix_field, op, arg, ret>>

(***************************************************************************)
(* Bytes                                                                   *)
(***************************************************************************)
SOH == 1
PIPE == 124
CR == 13
LF == 10
EQ == 61
ZERO == 48
SPACE == 32
PLUS == 43
MINUS == 45
UNDERSCORE == 95
ChA == 97
ChE == 69
ChF == 70
ChY == 89
ChLowerE == 101
DOT == 46
SEMI == 59

\* Bounds of the explored inputs
MaxTokens == 5
MaxBody == 1
MaxGroupBody == 5
MaxFields == 3
MaxRaw == 3
NumThreads == 2
MaxCalls == 2

IsDigit(c) == c >= ZERO /\ c <= ZERO + 9

\* str.isspace for the characters str.strip() removes
IsSpace(c) == c \in {9, 10, 11, 12, 13, 28, 29, 30, 31, 32, 133, 160}

RECURSIVE SumBytes(_)
SumBytes(s) == IF s = <<>> THEN 0 ELSE Head(s) + SumBytes(Tail(s))

\* str.strip(): leading and trailing whitespace removed
RECURSIVE LStrip(_)
LStrip(s) == IF s # <<>> /\ IsSpace(Head(s)) THEN LStrip(Tail(s)) ELSE s

RECURSIVE RStrip(_)
RStrip(s) ==
    IF s # <<>> /\ IsSpace(s[Len(s)]) THEN RStrip(SubSeq(s, 1, Len(s) - 1)) ELSE s

Strip(s) == RStrip(LStrip(s))

\* str.replace(old, new) for a one-character old
RECURSIVE ReplaceChar(_, _, _)
ReplaceChar(s, old, new) ==
    IF s = <<>> THEN <<>>
    ELSE (IF Head(s) = old THEN new ELSE <<Head(s)>>) \o ReplaceChar(Tail(s), old, new)

\* str.replace("\r\n", ""): non-overlapping occurrences, left to right
RECURSIVE RemoveCRLF(_)
RemoveCRLF(s) ==
    IF s = <<>> THEN <<>>
    ELSE IF Len(s) >= 2 /\ s[1] = CR /\ s[2] = LF THEN RemoveCRLF(SubSeq(s, 3, Len(s)))
    ELSE <<Head(s)>> \o RemoveCRLF(Tail(s))

Contains(s, c) == \E k \in 1..Len(s) : s[k] = c

\* int(str) on a run of decimal digits
RECURSIVE DigitsToInt(_)
DigitsToInt(s) ==
    IF s = <<>> THEN 0
    ELSE DigitsToInt(SubSeq(s, 1, Len(s) - 1)) * 10 + (s[Len(s)] - ZERO)

\* f"{n:03d}" for 0 <= n < 1000 (the checksum is below 256)
Format03d(n) ==
    <<ZERO + (n \div 100), ZERO + ((n \div 10) % 10), ZERO + (n % 10)>>

(***************************************************************************)
(* Exceptions (core/exceptions.py)                                         *)
(***************************************************************************)
\* ChecksumError declared beside ParseError instead of below it
ExceptionBase_Unrelated ==
    [ParseError |-> "Exception", ChecksumError |-> "Exception",
     ValidationError |-> "ParseError"]

ExceptionBase ==
    [ParseError |-> "Exception", ChecksumError |-> "ParseError",
     ValidationError |-> "ParseError"]

IsParseError(t) ==
    t = "ParseError" \/ (t \in DOMAIN ExceptionBase /\ ExceptionBase[t] = "ParseError")

MkError(t, m) == [type |-> t, message |-> m, expected |-> <<>>, actual |-> <<>>]

MkChecksumError(expected, actual) ==
    [type |-> "ChecksumError", message |-> "Checksum mismatch",
     expected |-> expected, actual |-> actual]

NoError == [type |-> "none", message |-> "", expected |-> <<>>, actual |-> <<>>]

(***************************************************************************)
(* FixParser                                                               *)
(***************************************************************************)
\* the emptiness test without the strip()
IsEmptyMessage_NoStrip(m) == m = <<>>

\* `not raw_message or not raw_message.strip()`
IsEmptyMessage(m) == m = <<>> \/ Strip(m) = <<>>

\* line breaks replaced by the delimiter instead of removed
NormalizeDelimiter_BreakAsDelimiter(cfg, m) ==
    LET stripped == ReplaceChar(ReplaceChar(RemoveCRLF(m), CR, <<SOH>>), LF, <<SOH>>)
    IN  IF cfg.allow_pipe_delimiter /\ Contains(stripped, PIPE)
        THEN ReplaceChar(stripped, PIPE, <<SOH>>)
        ELSE stripped

\* the pipe substituted only when the message holds no SOH at all
NormalizeDelimiter_PipeOnlyWithoutSoh(cfg, m) ==
    LET stripped == ReplaceChar(ReplaceChar(RemoveCRLF(m), CR, <<>>), LF, <<>>)
    IN  IF cfg.allow_pipe_delimiter /\ Contains(stripped, PIPE) /\ ~Contains(stripped, SOH)
        THEN ReplaceChar(stripped, PIPE, <<SOH>>)
        ELSE stripped

\* the pipe substituted whatever allow_pipe_delimiter says
NormalizeDelimiter_IgnoresOption(cfg, m) ==
    LET stripped == ReplaceChar(ReplaceChar(RemoveCRLF(m), CR, <<>>), LF, <<>>)
    IN  IF Contains(stripped, PIPE)
        THEN ReplaceChar(stripped, PIPE, <<SOH>>)
        ELSE stripped

NormalizeDelimiter(cfg, m) ==
    LET stripped == ReplaceChar(ReplaceChar(RemoveCRLF(m), CR, <<>>), LF, <<>>)
    IN  IF cfg.allow_pipe_delimiter /\ Contains(stripped, PIPE)
        THEN ReplaceChar(stripped, PIPE, <<SOH>>)
        ELSE stripped

\* first index > k (or Len+1) at which the digit run starting at k stops
RECURSIVE DigitRunEnd(_, _)
DigitRunEnd(s, k) ==
    IF k <= Len(s) /\ IsDigit(s[k]) THEN DigitRunEnd(s, k + 1) ELSE k

\* first index >= k (or Len+1) holding the delimiter
RECURSIVE ValueEnd(_, _)
ValueEnd(s, k) ==
    IF k <= Len(s) /\ s[k] # SOH THEN ValueEnd(s, k + 1) ELSE k

\* the pattern (\d+)=([^SOH]*)SOH? matches at k
MatchesAt(s, k) ==
    /\ k <= Len(s)
    /\ IsDigit(s[k])
    /\ DigitRunEnd(s, k) <= Len(s)
    /\ s[DigitRunEnd(s, k)] = EQ

\* re.finditer from position k: each match as [start, eq, vend], the tag string
\* being s[start..eq-1] and the value s[eq+1..vend-1]; the optional delimiter
\* at vend is consumed with the match
RECURSIVE FindSpans(_, _)
FindSpans(s, k) ==
    IF k > Len(s) THEN <<>>
    ELSE IF ~MatchesAt(s, k) THEN FindSpans(s, k + 1)
    ELSE LET e  == DigitRunEnd(s, k)
             ve == ValueEnd(s, e + 1)
             nx == IF ve <= Len(s) THEN ve + 1 ELSE ve
         IN  <<[start |-> k, eq |-> e, vend |-> ve]>> \o FindSpans(s, nx)

\* re.findall, then int(tag_str) on every match
FindAll(s, k) ==
    LET spans == FindSpans(s, k)
    IN  [n \in 1..Len(spans) |->
            [tag |-> DigitsToInt(SubSeq(s, spans[n].start, spans[n].eq - 1)),
             raw_value |-> SubSeq(s, spans[n].eq + 1, spans[n].vend - 1)]]

ExtractFields(m) == FindAll(m, 1)

BuildFields(raw_fields) == raw_fields

(***************************************************************************)
(* Accessors of FixMessage (core/message.py, lines 81-131)                 *)
(***************************************************************************)
\* get_field returning the last match
RECURSIVE GetField_LastMatch(_, _)
GetField_LastMatch(fs, tag) ==
    IF fs = <<>> THEN <<>>
    ELSE IF fs[Len(fs)].tag = tag THEN <<fs[Len(fs)]>>
    ELSE GetField_LastMatch(SubSeq(fs, 1, Len(fs) - 1), tag)

\* FixMessage.get_field: first field with the tag, as <<>> or <<field>>
RECURSIVE GetField(_, _)
GetField(fs, tag) ==
    IF fs = <<>> THEN <<>>
    ELSE IF Head(fs).tag = tag THEN <<Head(fs)>> ELSE GetField(Tail(fs), tag)

\* FixMessage.get_fields: [f for f in self.fields if f.tag == tag]
RECURSIVE GetFields(_, _)
GetFields(fs, tag) ==
    IF fs = <<>> THEN <<>>
    ELSE (IF Head(fs).tag = tag THEN <<Head(fs)>> ELSE <<>>) \o GetFields(Tail(fs), tag)

\* FixMessage.get_value: raw value of the first field with the tag, or None
GetValue(fs, tag) ==
    LET f == GetField(fs, tag)
    IN  IF f # <<>> THEN <<f[1].raw_value>> ELSE <<>>

\* the header properties and the tag each one looks up
HeaderTag ==
    [begin_string |-> 8, msg_type |-> 35, sender_comp_id |-> 49,
     target_comp_id |-> 56, checksum |-> 10]

(***************************************************************************)
(* FixParser: validation of the envelope and of the checksum              *)
(***************************************************************************)
\* str.rfind("10="): 1-based start of the last occurrence, 0 when absent
RECURSIVE RFind10(_, _)
RFind10(s, k) ==
    IF k < 1 THEN 0
    ELSE IF k + 2 <= Len(s) /\ s[k] = ZERO + 1 /\ s[k + 1] = ZERO /\ s[k + 2] = EQ
         THEN k
         ELSE RFind10(s, k - 1)

CalculateChecksum(m) == Format03d(SumBytes(m) % 256)

\* the body slice taken one byte too long
ValidateChecksum_BodyOffByOne(fs, norm) ==
    LET checksum_field == GetField(fs, 10)
        checksum_start == RFind10(norm, Len(norm))
    IN  IF checksum_field = <<>> THEN MkError("ValidationError", "Missing CheckSum (tag 10)")
        ELSE IF checksum_start = 0
             THEN MkError("ValidationError", "Cannot locate checksum in message")
        ELSE LET body     == SubSeq(norm, 1, checksum_start)
                 expected == CalculateChecksum(body)
                 actual   == checksum_field[1].raw_value
             IN  IF expected # actual THEN MkChecksumError(expected, actual) ELSE NoError

ValidateChecksum(fs, norm) ==
    LET checksum_field == GetField(fs, 10)
        checksum_start == RFind10(norm, Len(norm))
    IN  IF checksum_field = <<>> THEN MkError("ValidationError", "Missing CheckSum (tag 10)")
        ELSE IF checksum_start = 0
             THEN MkError("ValidationError", "Cannot locate checksum in message")
        ELSE LET body     == SubSeq(norm, 1, checksum_start - 1)
                 expected == CalculateChecksum(body)
                 actual   == checksum_field[1].raw_value
             IN  IF expected # actual THEN MkChecksumError(expected, actual) ELSE NoError

\* the checksum validated before the field positions
ValidateStructure_ChecksumFirst(cfg, fs, norm) ==
    LET c == IF cfg.strict_checksum /\ fs # <<>> THEN ValidateChecksum(fs, norm) ELSE NoError
    IN  IF c.type = "ChecksumError" THEN c
        ELSE IF fs = <<>> \/ fs[1].tag # 8 \/ Len(fs) < 2 \/ fs[2].tag # 9
                \/ Len(fs) < 3 \/ fs[3].tag # 35 \/ fs[Len(fs)].tag # 10
             THEN MkError("ValidationError", "structure")
        ELSE c

\* the checksum validated whatever strict_checksum says
ValidateStructure_AlwaysChecksum(cfg, fs, norm) ==
    IF fs = <<>> \/ fs[1].tag # 8 \/ Len(fs) < 2 \/ fs[2].tag # 9
       \/ Len(fs) < 3 \/ fs[3].tag # 35 \/ fs[Len(fs)].tag # 10
    THEN MkError("ValidationError", "structure")
    ELSE ValidateChecksum(fs, norm)

\* the strict checksum validation never run
ValidateStructure_NoChecksum(cfg, fs, norm) ==
    IF fs = <<>> \/ fs[1].tag # 8 \/ Len(fs) < 2 \/ fs[2].tag # 9
       \/ Len(fs) < 3 \/ fs[3].tag # 35 \/ fs[Len(fs)].tag # 10
    THEN MkError("ValidationError", "structure")
    ELSE NoError

ValidateStructure(cfg, fs, norm) ==
    IF fs = <<>> THEN MkError("ValidationError", "Message has no fields")
    ELSE IF fs[1].tag # 8
         THEN MkError("ValidationError", "Message must start with BeginString (tag 8)")
    ELSE IF Len(fs) < 2 \/ fs[2].tag # 9
         THEN MkError("ValidationError", "BodyLength (tag 9) must be second field")
    ELSE IF Len(fs) < 3 \/ fs[3].tag # 35
         THEN MkError("ValidationError", "MsgType (tag 35) must be third field")
    ELSE IF fs[Len(fs)].tag # 10
         THEN MkError("ValidationError", "Message must end with CheckSum (tag 10)")
    ELSE IF cfg.strict_checksum THEN ValidateChecksum(fs, norm)
    ELSE NoError

(***************************************************************************)
(* Field definitions and the tag dictionary (core/field.py,                *)
(* tags/dictionary.py, tags/fix44.py, venues/)                             *)
(***************************************************************************)
\* FixFieldDefinition; names, types and descriptions are texts
MkDefinition(tag, name, field_type, description, valid_values) ==
    [tag |-> tag, name |-> name, field_type |-> field_type,
     description |-> description, valid_values |-> valid_values]

\* TagDictionary() : no tag defined
EmptyDictionary == [t \in {} |-> <<>>]

\* TagDictionary.add: self._tags[definition.tag] = definition
DictAdd(d, defn) ==
    [t \in DOMAIN d \cup {defn.tag} |-> IF t = defn.tag THEN defn ELSE d[t]]

\* TagDictionary.get: the definition as <<>> (None) or <<definition>>
DictGet(d, tag) == IF tag \in DOMAIN d THEN <<d[tag]>> ELSE <<>>

RECURSIVE DictAddAll(_, _)
DictAddAll(d, defns) ==
    IF defns = <<>> THEN d ELSE DictAddAll(DictAdd(d, Head(defns)), Tail(defns))

\* type names of tags/fix44.py
TypeSTRING == <<83, 84, 82, 73, 78, 71>>
TypeLENGTH == <<76, 69, 78, 71, 84, 72>>
TypePRICE == <<80, 82, 73, 67, 69>>
TypeBOOLEAN == <<66, 79, 79, 76, 69, 65, 78>>

\* the entries of FIX44_TAGS for tags 8, 9, 35, 55, 10 (descriptions abridged
\* to their first word)
FIX44_TAGS ==
    <<MkDefinition(8, <<66, 101, 103, 105, 110, 83, 116, 114, 105, 110, 103>>, TypeSTRING, <<70, 73, 88>>, <<>>),
      MkDefinition(9, <<66, 111, 100, 121, 76, 101, 110, 103, 116, 104>>, TypeLENGTH, <<77, 101, 115, 115, 97, 103, 101>>, <<>>),
      MkDefinition(35, <<77, 115, 103, 84, 121, 112, 101>>, TypeSTRING, <<77, 101, 115, 115, 97, 103, 101>>,
                   <<[value |-> <<ZERO>>, text |-> <<72, 101, 97, 114, 116, 98, 101, 97, 116>>]>>),
      MkDefinition(55, <<83, 121, 109, 98, 111, 108>>, TypeSTRING, <<73, 110, 115, 116, 114, 117, 109, 101, 110, 116>>, <<>>),
      MkDefinition(10, <<67, 104, 101, 99, 107, 83, 117, 109>>, TypeSTRING, <<77, 101, 115, 115, 97, 103, 101>>, <<>>)>>

\* the dictionary a parser is constructed with
BaseDictionary == DictAddAll(EmptyDictionary, FIX44_TAGS)

\* VenueHandler: name and custom_tags
MkVenue(name, custom_tags) == [name |-> name, custom_tags |-> custom_tags]

\* _resolve_venue for venue = None or a VenueHandler instance
ResolveVenue(v) == v

\* the venue's tags added to self.dictionary itself instead of to a copy
GetDictionaryForVenue_MergesIntoBase(base, venue_handler) ==
    IF venue_handler = <<>> \/ venue_handler[1].custom_tags = <<>>
    THEN [dictionary |-> base, self_dictionary |-> base]
    ELSE LET merged == DictAddAll(base, venue_handler[1].custom_tags)
         IN  [dictionary |-> merged, self_dictionary |-> merged]

\* _get_dictionary_for_venue: the dictionary used for this call, and
\* self.dictionary as the call leaves it
GetDictionaryForVenue(base, venue_handler) ==
    IF venue_handler = <<>> \/ venue_handler[1].custom_tags = <<>>
    THEN [dictionary |-> base, self_dictionary |-> base]
    ELSE [dictionary |->
              DictAddAll(DictAddAll(EmptyDictionary,
                                    [k \in 1..Cardinality(DOMAIN base) |->
                                        base[CHOOSE t \in DOMAIN base :
                                                Cardinality({u \in DOMAIN base : u < t}) = k - 1]]),
                         venue_handler[1].custom_tags),
          self_dictionary |-> base]

\* FixField.definition of every field built by _build_fields
BuildDefinitions(raw_fields, d) ==
    [k \in 1..Len(raw_fields) |-> DictGet(d, raw_fields[k].tag)]

\* FixMessage(fields, raw_message), then message.venue as set at lines 76-78
MkMessage(fs, raw, v) == [fields |-> fs, raw_message |-> raw, venue |-> v]

\* FixParser.parse(raw_message, venue): one call, start to return or raise
Parse ==
    /\ pc = "ready"
    /\ pc' = "done"
    /\ IF IsEmptyMessage(raw_message)
       THEN /\ reached' = "empty_check"
            /\ normalized' = <<>>
            /\ fields' = <<>>
            /\ outcome' = "ParseError"
            /\ error' = <<MkError("ParseError", "Empty message")>>
            /\ returned' = <<>>
            /\ definitions' = <<>>
            /\ dictionary' = dictionary
       ELSE LET venue_handler == ResolveVenue(venue)
                venue_dict == GetDictionaryForVenue(dictionary, venue_handler)
                norm == NormalizeDelimiter(config, raw_message)
                raw_fields == ExtractFields(norm)
            IN  /\ normalized' = norm
                /\ dictionary' = venue_dict.self_dictionary
                /\ definitions' = BuildDefinitions(raw_fields, venue_dict.dictionary)
                /\ IF raw_fields = <<>>
                   THEN /\ reached' = "extract"
                        /\ fields' = <<>>
                        /\ outcome' = "ParseError"
                        /\ error' = <<MkError("ParseError", "No valid fields found in message")>>
                        /\ returned' = <<>>
                   ELSE LET fs == BuildFields(raw_fields)
                            e  == ValidateStructure(config, fs, norm)
                        IN  /\ reached' = "validate"
                            /\ fields' = fs
                            /\ IF e.type = "none"
                               THEN /\ outcome' = "ok"
                                    /\ error' = <<>>
                                    /\ returned' =
                                          <<MkMessage(fs, raw_message,
                                              IF venue_handler # <<>>
                                              THEN <<venue_handler[1].name>> ELSE <<>>)>>
                               ELSE /\ outcome' = e.type
                                    /\ error' = <<e>>
                                    /\ returned' = <<>>
    /\ UNCHANGED <<raw_message, config, prev, edit, venue, kwargs>>
    /\ UNCHANGED groupVars
    /\ UNCHANGED accessVars

(***************************************************************************)
(* Inputs of parse                                                         *)
(***************************************************************************)
\* the fields of the dataclass ParserConfig with their defaults
ParserConfigDefaults ==
    [strict_checksum |-> TRUE, strict_body_length |-> FALSE,
     default_delimiter |-> SOH, allow_pipe_delimiter |-> TRUE]

\* the options a caller may try to pass: strict_delimiter is the one the tests
\* pass and the dataclass does not declare
KwargNames == DOMAIN ParserConfigDefaults \cup {"strict_delimiter"}

\* no keyword argument given; <<>> stands for an argument left out
NoKwargs == [n \in KwargNames |-> <<>>]

\* ParserConfig(**kwargs): TypeError on a keyword that is not a field, else
\* the defaults overridden by the arguments given
ConstructConfig(kw) ==
    IF \E n \in DOMAIN kw : kw[n] # <<>> /\ n \notin DOMAIN ParserConfigDefaults
    THEN [ok |-> FALSE, config |-> ParserConfigDefaults]
    ELSE [ok |-> TRUE,
          config |-> [n \in DOMAIN ParserConfigDefaults |->
                         IF kw[n] # <<>> THEN kw[n][1] ELSE ParserConfigDefaults[n]]]

\* configurations with the default delimiter and body-length option
Configs ==
    [strict_checksum : BOOLEAN, strict_body_length : {FALSE},
     default_delimiter : {SOH}, allow_pipe_delimiter : BOOLEAN]

NoPrev ==
    [raw_message |-> <<>>, normalized |-> <<>>, outcome |-> "none", fields |-> <<>>,
     error |-> <<>>]
NoEdit == [kind |-> "none", pos |-> 0, byte |-> <<>>]

\* tag strings of the tokens: 8, 9, 35, 10 and 55
TagStrs == {<<ZERO + 8>>, <<ZERO + 9>>, <<ZERO + 3, ZERO + 5>>, <<ZERO + 1, ZERO>>,
            <<ZERO + 5, ZERO + 5>>}

IsTag10(t) == t = <<ZERO + 1, ZERO>>

\* a sample value for a tag string
SampleValue(t) ==
    IF t = <<ZERO + 8>> THEN <<ChF>>
    ELSE IF t = <<ZERO + 9>> THEN <<ZERO + 5>>
    ELSE IF t = <<ZERO + 3, ZERO + 5>> THEN <<ZERO>>
    ELSE <<ChE>>

\* a checksum value that differs from the correct one
WrongChecksum(text) == Format03d((SumBytes(text) + 1) % 256)

\* the tokens tag=value<d>, left to right; a tag-10 token carries the checksum of
\* the text before it (good) or a different 3-digit value
RECURSIVE RenderTags(_, _, _, _)
RenderTags(tags, d, good, acc) ==
    IF tags = <<>> THEN acc
    ELSE LET t == Head(tags)
             v == IF IsTag10(t)
                  THEN (IF good THEN CalculateChecksum(acc) ELSE WrongChecksum(acc))
                  ELSE SampleValue(t)
         IN  RenderTags(Tail(tags), d, good, acc \o t \o <<EQ>> \o v \o <<d>>)

TagSeqs == UNION {[1..n -> TagStrs] : n \in 1..MaxTokens}

DegenerateInputs ==
    {<<>>, <<SPACE>>, <<LF>>, <<SPACE, LF, 9, SPACE>>, <<SOH>>, <<ChA>>,
     <<ChA, EQ, ChE>>, <<EQ>>, <<ZERO + 8>>, <<ChA, EQ, ZERO + 1, SOH>>}

ParseInputs ==
    DegenerateInputs \cup {RenderTags(ts, SOH, g, <<>>) : ts \in TagSeqs, g \in BOOLEAN}

\* no accessor called yet
NoField == [tag |-> 0, raw_value |-> <<>>, definition |-> <<>>]

\* threads that may call TagDictionary.default()
Threads == 1..NumThreads

\* no dictionary built, no call of TagDictionary.default() under way
DefaultIdle ==
    /\ default_instance = <<>>
    /\ constructed = 0
    /\ callers = [t \in Threads |-> [pc |-> "idle", dictionary |-> 0, calls |-> 0, got |-> <<>>]]

\* no message under view
NoMessage == [fields |-> <<>>, raw_message |-> <<>>, venue |-> <<>>, product_type |-> <<>>]

AccessIdle ==
    /\ DefaultIdle
    /\ message = NoMessage
    /\ fix_field = NoField
    /\ op = "none"
    /\ arg = 0
    /\ ret = [kind |-> "none"]

GroupIdle ==
    /\ msg_fields = <<>>
    /\ gpc = "idle"
    /\ i = 0
    /\ result = <<>>
    /\ group = <<>>
    /\ count = 0
    /\ entry_index = 0
    /\ current_entry = <<>>
    /\ seen_tags = {}
    /\ warnings = <<>>
    /\ calls = 0
    /\ first_result = <<>>

ParseReady ==
    /\ pc = "ready"
    /\ kwargs = NoKwargs
    /\ reached = "none"
    /\ normalized = <<>>
    /\ fields = <<>>
    /\ outcome = "none"
    /\ error = <<>>
    /\ returned = <<>>
    /\ prev = NoPrev
    /\ edit = NoEdit
    /\ definitions = <<>>

Init ==
    /\ raw_message \in ParseInputs
    /\ config \in Configs
    /\ dictionary = BaseDictionary
    /\ venue = <<>>
    /\ ParseReady
    /\ GroupIdle
    /\ AccessIdle

Next == Parse

Spec == Init /\ [][Next]_vars

(***************************************************************************)
(* Resubmission: a finished call's input is altered and parsed again       *)
(***************************************************************************)
T8 == [tag |-> <<ZERO + 8>>, value |-> <<ChF>>]
T9 == [tag |-> <<ZERO + 9>>, value |-> <<ZERO + 5>>]
T35 == [tag |-> <<ZERO + 3, ZERO + 5>>, value |-> <<ZERO>>]

\* body tokens: a plain field, a text value holding a pipe, a tag-10 field
BodyTokens ==
    {[tag |-> <<ZERO + 5, ZERO + 5>>, value |-> <<ChE>>],
     [tag |-> <<ZERO + 5, ZERO + 8>>, value |-> <<ChA, PIPE, ChE>>],
     [tag |-> <<ZERO + 1, ZERO>>, value |-> <<ZERO, ZERO, ZERO + 7>>]}

RECURSIVE RenderTokens(_, _)
RenderTokens(toks, d) ==
    IF toks = <<>> THEN <<>>
    ELSE Head(toks).tag \o <<EQ>> \o Head(toks).value \o <<d>>
         \o RenderTokens(Tail(toks), d)

Bodies == UNION {[1..n -> BodyTokens] : n \in 0..MaxBody}

\* the trailer 10=<c><d> appended to a body text
WithTrailer(b, c, d) == b \o <<ZERO + 1, ZERO, EQ>> \o c \o <<d>>

\* messages 8, 9, 35, body..., 10 in SOH or pipe form; the declared checksum is
\* calculate_checksum of the body text as written, of its SOH form, or wrong
EditInputs ==
    UNION {
      LET b == RenderTokens(<<T8, T9, T35>> \o body, d)
      IN  {WithTrailer(b, CalculateChecksum(b), d),
           WithTrailer(b, CalculateChecksum(ReplaceChar(b, PIPE, <<SOH>>)), d),
           WithTrailer(b, WrongChecksum(b), d)}
      : body \in Bodies, d \in {SOH, PIPE}}

InitEdit ==
    /\ raw_message \in EditInputs
    /\ config \in Configs
    /\ dictionary = BaseDictionary
    /\ venue = <<>>
    /\ ParseReady
    /\ GroupIdle
    /\ AccessIdle

ThisCall ==
    [raw_message |-> raw_message, normalized |-> normalized, outcome |-> outcome,
     fields |-> fields, error |-> error]

\* the caller submits `m` for a second parse, remembering the first result
Resubmit(m, e) ==
    /\ pc = "done"
    /\ edit.kind = "none"
    /\ prev' = ThisCall
    /\ edit' = e
    /\ raw_message' = m
    /\ pc' = "ready"
    /\ reached' = "none"
    /\ normalized' = <<>>
    /\ fields' = <<>>
    /\ outcome' = "none"
    /\ error' = <<>>
    /\ returned' = <<>>
    /\ definitions' = <<>>
    /\ UNCHANGED <<config, dictionary, venue, kwargs>>
    /\ UNCHANGED groupVars
    /\ UNCHANGED accessVars

\* every SOH written as a pipe
SohToPipe ==
    /\ Contains(raw_message, SOH)
    /\ Resubmit(ReplaceChar(raw_message, SOH, <<PIPE>>),
                [kind |-> "soh_to_pipe", pos |-> 0, byte |-> <<>>])

\* every pipe written as SOH
PipeToSoh ==
    /\ Contains(raw_message, PIPE)
    /\ Resubmit(ReplaceChar(raw_message, PIPE, <<SOH>>),
                [kind |-> "pipe_to_soh", pos |-> 0, byte |-> <<>>])

LineBreaks == {<<CR>>, <<LF>>, <<CR, LF>>}

\* a line break inserted after the first `pos` bytes
InsertBreak ==
    \E pos \in 0..Len(raw_message), brk \in LineBreaks :
        Resubmit(SubSeq(raw_message, 1, pos) \o brk
                 \o SubSeq(raw_message, pos + 1, Len(raw_message)),
                 [kind |-> "break", pos |-> pos, byte |-> brk])

FlipBytes == {SOH, PIPE, CR, ZERO, ChA}

\* start of the trailing field of a text: the last match of the tokenizer
TrailerStart(m) ==
    LET spans == FindSpans(m, 1)
    IN  IF spans = <<>> THEN 1 ELSE spans[Len(spans)].start

\* one byte of the body (the text before the trailing 10= field) of a message
\* accepted under strict checksum is changed to a different value
FlipByte ==
    /\ outcome = "ok"
    /\ config.strict_checksum
    /\ \E pos \in 1..(TrailerStart(raw_message) - 1), b \in FlipBytes :
          /\ b # raw_message[pos]
          /\ Resubmit([raw_message EXCEPT ![pos] = b],
                      [kind |-> "flip", pos |-> pos, byte |-> <<b>>])

\* values written into a tag-10 field: empty, 000, a, and the checksum of the
\* text before the field
ChecksumValues(text) == {<<>>, <<ZERO, ZERO, ZERO>>, <<ChA>>, CalculateChecksum(text)}

\* the value of the k-th field, a tag-10 field, is replaced by another value
\* (the text holds no line break, so the fields lie in raw_message where they
\* lie in the normalized text)
ChangeChecksum ==
    /\ pc = "done"
    /\ ~Contains(raw_message, CR) /\ ~Contains(raw_message, LF)
    /\ \E k \in 1..Len(fields) :
          /\ fields[k].tag = 10
          /\ LET span == FindSpans(normalized, 1)[k]
             IN  \E v \in ChecksumValues(SubSeq(normalized, 1, span.start - 1)) :
                    /\ v # fields[k].raw_value
                    /\ Resubmit(SubSeq(raw_message, 1, span.eq) \o v
                                \o SubSeq(raw_message, span.vend, Len(raw_message)),
                                [kind |-> "checksum", pos |-> k, byte |-> v])

NextEdit ==
    Parse \/ SohToPipe \/ PipeToSoh \/ InsertBreak \/ FlipByte \/ ChangeChecksum

SpecEdit == InitEdit /\ [][NextEdit]_vars

(***************************************************************************)
(* Construction of the configuration, then one parse                       *)
(***************************************************************************)
\* keyword arguments: each option left out or given one of its values
KwargSets ==
    [strict_checksum : {<<>>, <<TRUE>>, <<FALSE>>},
     strict_body_length : {<<>>, <<TRUE>>},
     default_delimiter : {<<>>, <<SOH>>, <<SEMI>>},
     allow_pipe_delimiter : {<<>>, <<TRUE>>, <<FALSE>>},
     strict_delimiter : {<<>>, <<TRUE>>, <<FALSE>>}]

\* 8, 9, 35, [55,] 10 with the right checksum, delimited by d, the last
\* delimiter present or not
ConfigInputs ==
    UNION {
      LET b == RenderTokens(<<T8, T9, T35>> \o body, d)
          m == WithTrailer(b, CalculateChecksum(b), d)
      IN  {m, SubSeq(m, 1, Len(m) - 1)}
      : body \in {<<>>, <<[tag |-> <<ZERO + 5, ZERO + 5>>, value |-> <<ChE>>]>>},
        d \in {SOH, SEMI}}

InitConfig ==
    /\ kwargs \in KwargSets
    /\ raw_message \in ConfigInputs
    /\ config = ParserConfigDefaults
    /\ dictionary = BaseDictionary
    /\ venue = <<>>
    /\ pc = "new"
    /\ reached = "none"
    /\ normalized = <<>>
    /\ fields = <<>>
    /\ outcome = "none"
    /\ error = <<>>
    /\ returned = <<>>
    /\ prev = NoPrev
    /\ edit = NoEdit
    /\ definitions = <<>>
    /\ GroupIdle
    /\ AccessIdle

\* FixParser(config=ParserConfig(**kwargs))
Construct ==
    /\ pc = "new"
    /\ LET c == ConstructConfig(kwargs)
       IN  IF c.ok
           THEN /\ config' = c.config
                /\ pc' = "ready"
                /\ UNCHANGED <<outcome, error>>
           ELSE /\ pc' = "done"
                /\ outcome' = "TypeError"
                /\ error' = <<MkError("TypeError", "unexpected keyword argument")>>
                /\ UNCHANGED config
    /\ UNCHANGED <<raw_message, reached, normalized, fields, returned, prev, edit,
                   dictionary, venue, definitions, kwargs>>
    /\ UNCHANGED groupVars
    /\ UNCHANGED accessVars

NextConfig == Construct \/ Parse

SpecConfig == InitConfig /\ [][NextConfig]_vars

(***************************************************************************)
(* Parsing for a venue                                                     *)
(***************************************************************************)
\* the first entries of LFX_TENOR_VALUES
LFX_TENOR_VALUES ==
    <<[value |-> <<83, 80, 79, 84>>, text |-> <<83, 112, 111, 116>>],
      [value |-> <<79, 78, 73>>, text |-> <<79, 118, 101, 114, 110, 105, 103, 104, 116>>]>>

\* the entries of FX_CUSTOM_TAGS for tags 8000 and 8004
FX_CUSTOM_TAGS ==
    <<MkDefinition(8000, <<66, 105, 100, 69, 110, 116, 114, 121, 73, 68>>, TypeSTRING, <<85, 110, 105, 113, 117, 101, 108, 121>>, <<>>),
      MkDefinition(8004, <<83, 101, 116, 116, 108, 84, 121, 112, 101, 50>>, TypeSTRING, <<70, 88, 32, 83, 119, 97, 112, 58, 32, 70, 97, 114, 32, 76, 101, 103, 32, 84, 101, 110, 111, 114, 46, 32, 83, 101, 101, 32, 83, 117, 112, 112, 111, 114, 116, 101, 100, 32, 84, 101, 110, 111, 114, 32, 67, 111, 100, 101, 115, 32, 102, 111, 114, 32, 112, 111, 115, 115, 105, 98, 108, 101, 32, 118, 97, 108, 117, 101, 115, 46>>, LFX_TENOR_VALUES)>>

\* FXGOHandler: no custom tags
FXGOHandler == MkVenue("FXGO", <<>>)

\* SmartTradeHandler: custom tags 8004 (its own wording) and 8011
SmartTradeHandler ==
    MkVenue("Smart Trade (LiquidityFX)",
            <<MkDefinition(8004, <<83, 101, 116, 116, 108, 84, 121, 112, 101, 50>>, TypeSTRING, <<70, 88, 32, 83, 119, 97, 112, 58, 32, 70, 97, 114, 32, 76, 101, 103, 32, 84, 101, 110, 111, 114, 46, 32, 83, 101, 101, 32, 83, 117, 112, 112, 111, 114, 116, 101, 100, 32, 84, 101, 110, 111, 114, 32, 67, 111, 100, 101, 115, 46>>, LFX_TENOR_VALUES),
              MkDefinition(8011, <<66, 105, 100, 83, 112, 111, 116, 82, 97, 116, 101, 50>>, TypePRICE, <<70, 88, 32, 83, 119, 97, 112>>, <<>>)>>)

\* venue = None, a handler without custom tags, a handler with custom tags
Venues == {<<>>, <<FXGOHandler>>, <<SmartTradeHandler>>}

\* the dictionary of the parser: FIX 4.4 only, or with the FX custom tags
Dictionaries == {BaseDictionary, DictAddAll(BaseDictionary, FX_CUSTOM_TAGS)}

\* body fields: in the base only (55), in base and venue or venue only (8004),
\* in the venue only (8011), in neither (9999)
VenueTokens ==
    {[tag |-> <<ZERO + 5, ZERO + 5>>, value |-> <<ChE>>],
     [tag |-> <<ZERO + 8, ZERO, ZERO, ZERO + 4>>, value |-> <<ZERO + 1>>],
     [tag |-> <<ZERO + 8, ZERO, ZERO + 1, ZERO + 1>>, value |-> <<ZERO + 1, DOT, ZERO + 1>>],
     [tag |-> <<ZERO + 9, ZERO + 9, ZERO + 9, ZERO + 9>>, value |-> <<ChA>>]}

\* 8, 9, 35, body, 10 with the right or a wrong checksum
VenueInputs ==
    UNION {
      LET b == RenderTokens(<<T8, T9, T35>> \o body, SOH)
      IN  {WithTrailer(b, CalculateChecksum(b), SOH), WithTrailer(b, WrongChecksum(b), SOH)}
      : body \in UNION {[1..n -> VenueTokens] : n \in 0..(MaxBody + 1)}}

InitVenue ==
    /\ raw_message \in VenueInputs
    /\ venue \in Venues
    /\ dictionary \in Dictionaries
    /\ config = ParserConfigDefaults
    /\ ParseReady
    /\ GroupIdle
    /\ AccessIdle

NextVenue == Parse

SpecVenue == InitVenue /\ [][NextVenue]_vars

(***************************************************************************)
(* Parsing of tokens whose tag part is not a number                        *)
(***************************************************************************)
\* token texts: 55=E, X55=E, 5a=E, ab=E, =E, ab, a=1=2
TokenTexts ==
    { <<53, 53, 61, 69>>, <<88, 53, 53, 61, 69>>, <<53, 97, 61, 69>>, <<97, 98, 61, 69>>, <<61, 69>>, <<97, 98>>, <<97, 61, 49, 61, 50>> }

RECURSIVE JoinTokens(_, _)
JoinTokens(toks, d) ==
    IF toks = <<>> THEN <<>> ELSE Head(toks) \o <<d>> \o JoinTokens(Tail(toks), d)

\* 8, 9, 35, then the tokens, then 10 with the right checksum
TokenInputs ==
    {LET b == RenderTokens(<<T8, T9, T35>>, SOH) \o JoinTokens(body, SOH)
     IN  WithTrailer(b, CalculateChecksum(b), SOH)
     : body \in UNION {[1..n -> TokenTexts] : n \in 0..(MaxBody + 1)}}

InitToken ==
    /\ raw_message \in TokenInputs
    /\ config \in Configs
    /\ dictionary = BaseDictionary
    /\ venue = <<>>
    /\ ParseReady
    /\ GroupIdle
    /\ AccessIdle

NextToken == Parse

SpecToken == InitToken /\ [][NextToken]_vars

(***************************************************************************)
(* Repeating groups (tags/repeating_groups.py, core/message.py)            *)
(***************************************************************************)
REPEATING_GROUPS ==
    <<[count_tag |-> 268, name |-> "Market Data Entries",
       member_tags |-> {269, 270, 271, 272, 273, 274, 275, 276, 277, 278, 279, 280,
                        282, 283, 284, 286, 290, 291, 292, 15, 64, 40, 110, 1026,
                        1027, 9122, 9123, 37, 198, 336, 625, 58}],
      [count_tag |-> 267, name |-> "Market Data Entry Types", member_tags |-> {269}],
      [count_tag |-> 453, name |-> "Party IDs", member_tags |-> {448, 447, 452, 802}],
      [count_tag |-> 146, name |-> "Related Symbols",
       member_tags |-> {55, 65, 48, 22, 167, 207, 106, 107, 15, 64, 54, 38, 63, 193,
                        192, 126, 8004}],
      [count_tag |-> 555, name |-> "Legs",
       member_tags |-> {600, 602, 603, 604, 608, 609, 610, 611, 612, 613, 614, 615,
                        616, 617, 618, 619, 620, 621, 622, 623, 624, 556, 564, 565,
                        566, 587, 588, 637, 654, 682, 683, 684, 685, 686, 687}],
      [count_tag |-> 78, name |-> "Allocations",
       member_tags |-> {79, 661, 573, 366, 80, 467, 81, 736, 737, 161}],
      [count_tag |-> 73, name |-> "Orders", member_tags |-> {11, 526, 67, 583, 160}],
      [count_tag |-> 1362, name |-> "Fills", member_tags |-> {1363, 1364, 1365, 1443}],
      [count_tag |-> 1141, name |-> "Trading Session Rules", member_tags |-> {336, 625}]>>

\* get_group_definition: the first definition with the count tag, <<>> when none
RECURSIVE FirstGroup(_, _)
FirstGroup(defs, tag) ==
    IF defs = <<>> THEN <<>>
    ELSE IF Head(defs).count_tag = tag THEN <<Head(defs)>>
    ELSE FirstGroup(Tail(defs), tag)

GetGroupDefinition(count_tag) == FirstGroup(REPEATING_GROUPS, count_tag)

\* int(raw_value): surrounding whitespace, one optional sign, decimal digits
\* with single underscores between them; anything else is a ValueError
IsIntBody(s) ==
    /\ s # <<>>
    /\ IsDigit(s[1]) /\ IsDigit(s[Len(s)])
    /\ \A k \in 1..Len(s) : IsDigit(s[k]) \/ s[k] = UNDERSCORE
    /\ \A k \in 1..(Len(s) - 1) : ~(s[k] = UNDERSCORE /\ s[k + 1] = UNDERSCORE)

PyInt(raw) ==
    LET t    == Strip(raw)
        sgn  == t # <<>> /\ t[1] \in {PLUS, MINUS}
        body == IF sgn THEN Tail(t) ELSE t
        mag  == DigitsToInt(ReplaceChar(body, UNDERSCORE, <<>>))
    IN  IF IsIntBody(body)
        THEN [ok |-> TRUE, val |-> IF sgn /\ t[1] = MINUS THEN 0 - mag ELSE mag]
        ELSE [ok |-> FALSE, val |-> 0]

(***************************************************************************)
(* FixField properties (core/field.py, lines 33-85)                        *)
(***************************************************************************)
\* str(n) for an int
RECURSIVE NatToDigits(_)
NatToDigits(n) ==
    IF n < 10 THEN <<ZERO + n>> ELSE NatToDigits(n \div 10) \o <<ZERO + (n % 10)>>

IntToStr(n) == IF n < 0 THEN <<MINUS>> \o NatToDigits(0 - n) ELSE NatToDigits(n)

\* the tag left out of the placeholder name
FieldName_NoTag(f) ==
    IF f.definition # <<>> THEN f.definition[1].name
    ELSE <<85, 110, 107, 110, 111, 119, 110>>

\* FixField.name: f"Unknown({self.tag})" without a definition
FieldName(f) ==
    IF f.definition # <<>> THEN f.definition[1].name
    ELSE <<85, 110, 107, 110, 111, 119, 110, 40>> \o IntToStr(f.tag) \o <<41>>

\* FixField.description
FieldDescription(f) ==
    IF f.definition # <<>> THEN f.definition[1].description ELSE <<>>

\* dict.get on valid_values, kept as a list of [value, text]: <<>> is None
RECURSIVE ValidValuesGet(_, _)
ValidValuesGet(vv, value) ==
    IF vv = <<>> THEN <<>>
    ELSE IF Head(vv).value = value THEN <<Head(vv).text>>
    ELSE ValidValuesGet(Tail(vv), value)

\* FixFieldDefinition.get_value_description
GetValueDescription(defn, value) == ValidValuesGet(defn.valid_values, value)

\* FixField.value_description
FieldValueDescription(f) ==
    IF f.definition # <<>> THEN GetValueDescription(f.definition[1], f.raw_value)
    ELSE <<>>

\* str.upper() and str.lower() on ASCII letters
Upper(s) == [k \in 1..Len(s) |-> IF s[k] >= 97 /\ s[k] <= 122 THEN s[k] - 32 ELSE s[k]]
Lower(s) == [k \in 1..Len(s) |-> IF s[k] >= 65 /\ s[k] <= 90 THEN s[k] + 32 ELSE s[k]]

\* first position >= k holding one of the bytes, Len(s) + 1 when none
RECURSIVE FindByte(_, _, _)
FindByte(s, bytes, k) ==
    IF k > Len(s) \/ s[k] \in bytes THEN k ELSE FindByte(s, bytes, k + 1)

\* a float with mantissa digits m and decimal exponent e, trailing zeros of
\* the mantissa moved into the exponent
RECURSIVE NormalFloat(_, _, _)
NormalFloat(neg, m, e) ==
    IF m = 0 THEN [neg |-> neg, mant |-> 0, exp |-> 0, special |-> ""]
    ELSE IF m % 10 = 0 THEN NormalFloat(neg, m \div 10, e + 1)
    ELSE [neg |-> neg, mant |-> m, exp |-> e, special |-> ""]

\* float(raw_value): surrounding whitespace, an optional sign, then inf,
\* infinity or nan in any case, or digits with an optional fraction and an
\* optional exponent; anything else is a ValueError
PyFloat(raw) ==
    LET t    == Strip(raw)
        sgn  == t # <<>> /\ t[1] \in {PLUS, MINUS}
        neg  == sgn /\ t[1] = MINUS
        body == IF sgn THEN Tail(t) ELSE t
        epos == FindByte(body, {ChE, ChLowerE}, 1)
        m    == SubSeq(body, 1, epos - 1)
        x    == SubSeq(body, epos + 1, Len(body))
        xsgn == x # <<>> /\ x[1] \in {PLUS, MINUS}
        xdig == IF xsgn THEN Tail(x) ELSE x
        dpos == FindByte(m, {DOT}, 1)
        ip   == SubSeq(m, 1, dpos - 1)
        fp   == SubSeq(m, dpos + 1, Len(m))
        mOk  == IF dpos > Len(m) THEN IsIntBody(ip)
                ELSE /\ ip = <<>> \/ IsIntBody(ip)
                     /\ fp = <<>> \/ IsIntBody(fp)
                     /\ ip # <<>> \/ fp # <<>>
        xOk  == epos > Len(body) \/ IsIntBody(xdig)
        ipd  == ReplaceChar(ip, UNDERSCORE, <<>>)
        fpd  == ReplaceChar(fp, UNDERSCORE, <<>>)
        xval == IF epos > Len(body) THEN 0
                ELSE IF xsgn /\ x[1] = MINUS
                     THEN 0 - DigitsToInt(ReplaceChar(xdig, UNDERSCORE, <<>>))
                     ELSE DigitsToInt(ReplaceChar(xdig, UNDERSCORE, <<>>))
    IN  IF Lower(body) \in {<<105, 110, 102>>, <<105, 110, 102, 105, 110, 105, 116, 121>>}
        THEN [ok |-> TRUE, val |-> [neg |-> neg, mant |-> 0, exp |-> 0, special |-> "inf"]]
        ELSE IF Lower(body) = <<110, 97, 110>>
        THEN [ok |-> TRUE, val |-> [neg |-> FALSE, mant |-> 0, exp |-> 0, special |-> "nan"]]
        ELSE IF mOk /\ xOk
        THEN [ok |-> TRUE, val |-> NormalFloat(neg, DigitsToInt(ipd \o fpd), xval - Len(fpd))]
        ELSE [ok |-> FALSE, val |-> NormalFloat(FALSE, 0, 0)]

\* the type names typed_value tests for
IntTypes == {<<73, 78, 84>>, <<76, 69, 78, 71, 84, 72>>, <<83, 69, 81, 78, 85, 77>>, <<78, 85, 77, 73, 78, 71, 82, 79, 85, 80>>}
FloatTypes ==
    {<<70, 76, 79, 65, 84>>, <<80, 82, 73, 67, 69>>, <<81, 84, 89>>, <<65, 77, 84>>,
     <<80, 69, 82, 67, 69, 78, 84, 65, 71, 69>>, <<80, 82, 73, 67, 69, 79, 70, 70, 83, 69, 84>>}

\* a value of typed_value: a str, an int, a float or a bool
MkTyped(kind, text, int, float, bool) ==
    [kind |-> kind, text |-> text, int |-> int, float |-> float, bool |-> bool]

TypedStr(raw) == MkTyped("str", raw, 0, NormalFloat(FALSE, 0, 0), FALSE)

\* BOOLEAN read as the truth value of the string
TypedValue_BooleanTruthy(f) ==
    IF f.definition = <<>> THEN TypedStr(f.raw_value)
    ELSE LET field_type == Upper(f.definition[1].field_type)
         IN  IF field_type \in IntTypes
             THEN IF PyInt(f.raw_value).ok
                  THEN MkTyped("int", <<>>, PyInt(f.raw_value).val,
                               NormalFloat(FALSE, 0, 0), FALSE)
                  ELSE TypedStr(f.raw_value)
             ELSE IF field_type \in FloatTypes
             THEN IF PyFloat(f.raw_value).ok
                  THEN MkTyped("float", <<>>, 0, PyFloat(f.raw_value).val, FALSE)
                  ELSE TypedStr(f.raw_value)
             ELSE IF field_type = <<66, 79, 79, 76, 69, 65, 78>>
             THEN MkTyped("bool", <<>>, 0, NormalFloat(FALSE, 0, 0), f.raw_value # <<>>)
             ELSE TypedStr(f.raw_value)

\* FixField.typed_value
TypedValue(f) ==
    IF f.definition = <<>> THEN TypedStr(f.raw_value)
    ELSE LET field_type == Upper(f.definition[1].field_type)
         IN  IF field_type \in IntTypes
             THEN IF PyInt(f.raw_value).ok
                  THEN MkTyped("int", <<>>, PyInt(f.raw_value).val,
                               NormalFloat(FALSE, 0, 0), FALSE)
                  ELSE TypedStr(f.raw_value)
             ELSE IF field_type \in FloatTypes
             THEN IF PyFloat(f.raw_value).ok
                  THEN MkTyped("float", <<>>, 0, PyFloat(f.raw_value).val, FALSE)
                  ELSE TypedStr(f.raw_value)
             ELSE IF field_type = <<66, 79, 79, 76, 69, 65, 78>>
             THEN MkTyped("bool", <<>>, 0, NormalFloat(FALSE, 0, 0),
                          f.raw_value \in {<<ChY>>, <<ZERO + 1>>})
             ELSE TypedStr(f.raw_value)

(***************************************************************************)
(* FixMessage.get_structured_fields (core/message.py, lines 141-233)       *)
(***************************************************************************)
\* the leading digits of a malformed count taken as the count
DeclaredCount_LeadingDigits(f) ==
    IF PyInt(f.raw_value).ok THEN PyInt(f.raw_value).val
    ELSE DigitsToInt(SubSeq(f.raw_value, 1, DigitRunEnd(f.raw_value, 1) - 1))

\* the declared count read at lines 164-171: 0 on ValueError
DeclaredCount(f) == IF PyInt(f.raw_value).ok THEN PyInt(f.raw_value).val ELSE 0

\* RepeatingGroup.count: int(count_field.raw_value), 0 on ValueError
RepeatingGroupCount(g) ==
    IF PyInt(g.count_field.raw_value).ok THEN PyInt(g.count_field.raw_value).val ELSE 0

MkStandalone(f) == [is_group |-> FALSE, field |-> <<f>>, group |-> <<>>]
MkGroupField(g) == [is_group |-> TRUE, field |-> <<>>, group |-> <<g>>]
MkEntry(idx, fs) == [index |-> idx, fields |-> fs]

\* the inner loop runs one step too far
InnerLoopCond_OffByOne(pos, n, idx, cnt) == pos < n /\ idx - 1 <= cnt

\* `while i < len(self.fields) and entry_index <= count`
InnerLoopCond(pos, n, idx, cnt) == pos < n /\ idx <= cnt

\* only a repeat of the entry's first tag starts a new entry
IsEntryBoundary_FirstTagOnly(entry, seen, tag) == entry # <<>> /\ entry[1].tag = tag

\* `if current_entry and fld.tag in seen_tags`
IsEntryBoundary(entry, seen, tag) == entry # <<>> /\ tag \in seen

\* the buffered entry dropped when the declared count was not reached
CloseGroup_DropsShortEntry(g, idx, entry, cnt) ==
    IF entry # <<>> /\ idx >= cnt
    THEN [g EXCEPT !.entries = Append(g.entries, MkEntry(idx, entry))]
    ELSE g

\* the buffer saved as the last entry even when it is empty
CloseGroup_SavesEmptyBuffer(g, idx, entry, cnt) ==
    [g EXCEPT !.entries = Append(g.entries, MkEntry(idx, entry))]

\* "Save last entry" (lines 210-217)
CloseGroup(g, idx, entry, cnt) ==
    IF entry # <<>>
    THEN [g EXCEPT !.entries = Append(g.entries, MkEntry(idx, entry))]
    ELSE g

\* the call begins with the list left by the previous call
BeginStructured_KeepsResult ==
    /\ gpc = "idle"
    /\ gpc' = "outer"
    /\ i' = 0
    /\ result' = result
    /\ calls' = calls + 1
    /\ UNCHANGED <<msg_fields, group, count, entry_index, current_entry, seen_tags,
                   warnings, first_result>>
    /\ UNCHANGED parseVars
    /\ UNCHANGED accessVars

\* the call begins: result = [], i = 0
BeginStructured ==
    /\ gpc = "idle"
    /\ gpc' = "outer"
    /\ i' = 0
    /\ result' = <<>>
    /\ calls' = calls + 1
    /\ UNCHANGED <<msg_fields, group, count, entry_index, current_entry, seen_tags,
                   warnings, first_result>>
    /\ UNCHANGED parseVars
    /\ UNCHANGED accessVars

\* outer loop exhausted: return result
ReturnStructured ==
    /\ gpc = "outer"
    /\ ~(i < Len(msg_fields))
    /\ gpc' = "done"
    /\ UNCHANGED <<msg_fields, i, result, group, count, entry_index, current_entry,
                   seen_tags, warnings>>
    /\ UNCHANGED callVars
    /\ UNCHANGED parseVars
    /\ UNCHANGED accessVars

\* outer loop, regular field (lines 228-231)
OuterField ==
    /\ gpc = "outer"
    /\ i < Len(msg_fields)
    /\ GetGroupDefinition(msg_fields[i + 1].tag) = <<>>
    /\ result' = Append(result, MkStandalone(msg_fields[i + 1]))
    /\ i' = i + 1
    /\ UNCHANGED <<msg_fields, gpc, group, count, entry_index, current_entry,
                   seen_tags, warnings>>
    /\ UNCHANGED callVars
    /\ UNCHANGED parseVars
    /\ UNCHANGED accessVars

\* the count field is not consumed
OuterCountTag_KeepsPosition ==
    /\ gpc = "outer"
    /\ i < Len(msg_fields)
    /\ LET current_field == msg_fields[i + 1]
           group_def == GetGroupDefinition(current_field.tag)
       IN  /\ group_def # <<>>
           /\ count' = DeclaredCount(current_field)
           /\ warnings' = IF PyInt(current_field.raw_value).ok THEN warnings
                          ELSE Append(warnings, [kind |-> "non_numeric_count",
                                                 tag |-> current_field.tag,
                                                 declared |-> 0, found |-> 0])
           /\ group' = <<[name |-> group_def[1].name, count_field |-> current_field,
                           entries |-> <<>>]>>
    /\ i' = i
    /\ entry_index' = 1
    /\ current_entry' = <<>>
    /\ seen_tags' = {}
    /\ gpc' = "inner"
    /\ UNCHANGED <<msg_fields, result>>
    /\ UNCHANGED callVars
    /\ UNCHANGED parseVars
    /\ UNCHANGED accessVars

\* outer loop, count tag (lines 162-183)
OuterCountTag ==
    /\ gpc = "outer"
    /\ i < Len(msg_fields)
    /\ LET current_field == msg_fields[i + 1]
           group_def == GetGroupDefinition(current_field.tag)
       IN  /\ group_def # <<>>
           /\ count' = DeclaredCount(current_field)
           /\ warnings' = IF PyInt(current_field.raw_value).ok THEN warnings
                          ELSE Append(warnings, [kind |-> "non_numeric_count",
                                                 tag |-> current_field.tag,
                                                 declared |-> 0, found |-> 0])
           /\ group' = <<[name |-> group_def[1].name, count_field |-> current_field,
                           entries |-> <<>>]>>
    /\ i' = i + 1
    /\ entry_index' = 1
    /\ current_entry' = <<>>
    /\ seen_tags' = {}
    /\ gpc' = "inner"
    /\ UNCHANGED <<msg_fields, result>>
    /\ UNCHANGED callVars
    /\ UNCHANGED parseVars
    /\ UNCHANGED accessVars

\* member tags of the group under construction
CurrentMemberTags == GetGroupDefinition(group[1].count_field.tag)[1].member_tags

\* a member field with tag 802 opens a sub-group inside the entry
InnerMember_OpensSubGroup ==
    /\ gpc = "inner"
    /\ InnerLoopCond(i, Len(msg_fields), entry_index, count)
    /\ LET fld == msg_fields[i + 1]
           item == IF fld.tag = 802
                   THEN MkGroupField([name |-> "Party Sub IDs", count_field |-> fld,
                                      entries |-> <<>>])
                   ELSE fld
       IN  /\ fld.tag \in CurrentMemberTags
           /\ IF IsEntryBoundary(current_entry, seen_tags, fld.tag)
              THEN /\ group' = <<[group[1] EXCEPT !.entries =
                                     Append(@, MkEntry(entry_index, current_entry))]>>
                   /\ entry_index' = entry_index + 1
                   /\ current_entry' = <<item>>
                   /\ seen_tags' = {fld.tag}
              ELSE /\ current_entry' = Append(current_entry, item)
                   /\ seen_tags' = seen_tags \cup {fld.tag}
                   /\ UNCHANGED <<group, entry_index>>
    /\ i' = i + 1
    /\ UNCHANGED <<msg_fields, gpc, result, count, warnings>>
    /\ UNCHANGED callVars
    /\ UNCHANGED parseVars
    /\ UNCHANGED accessVars

\* inner loop, member tag (lines 185-205)
InnerMember ==
    /\ gpc = "inner"
    /\ InnerLoopCond(i, Len(msg_fields), entry_index, count)
    /\ LET fld == msg_fields[i + 1]
       IN  /\ fld.tag \in CurrentMemberTags
           /\ IF IsEntryBoundary(current_entry, seen_tags, fld.tag)
              THEN /\ group' = <<[group[1] EXCEPT !.entries =
                                     Append(@, MkEntry(entry_index, current_entry))]>>
                   /\ entry_index' = entry_index + 1
                   /\ current_entry' = <<fld>>
                   /\ seen_tags' = {fld.tag}
              ELSE /\ current_entry' = Append(current_entry, fld)
                   /\ seen_tags' = seen_tags \cup {fld.tag}
                   /\ UNCHANGED <<group, entry_index>>
    /\ i' = i + 1
    /\ UNCHANGED <<msg_fields, gpc, result, count, warnings>>
    /\ UNCHANGED callVars
    /\ UNCHANGED parseVars
    /\ UNCHANGED accessVars

\* the field that ended the group body is stepped over
GroupEnd_SkipsEndField ==
    /\ gpc = "inner"
    /\ \/ ~InnerLoopCond(i, Len(msg_fields), entry_index, count)
       \/ /\ InnerLoopCond(i, Len(msg_fields), entry_index, count)
          /\ msg_fields[i + 1].tag \notin CurrentMemberTags
    /\ LET g == CloseGroup(group[1], entry_index, current_entry, count)
           actual_count == Len(g.entries)
       IN  /\ warnings' = IF count > 0 /\ actual_count # count
                          THEN Append(warnings, [kind |-> "count_mismatch",
                                                 tag |-> g.count_field.tag,
                                                 declared |-> count,
                                                 found |-> actual_count])
                          ELSE warnings
           /\ result' = Append(result, MkGroupField(g))
    /\ i' = IF i < Len(msg_fields) THEN i + 1 ELSE i
    /\ gpc' = "outer"
    /\ group' = <<>>
    /\ UNCHANGED <<msg_fields, count, entry_index, current_entry, seen_tags>>
    /\ UNCHANGED callVars
    /\ UNCHANGED parseVars
    /\ UNCHANGED accessVars

\* inner loop left (condition false, or break on a non-member tag); last entry
\* saved, counts compared, group emitted (lines 206-227)
GroupEnd ==
    /\ gpc = "inner"
    /\ \/ ~InnerLoopCond(i, Len(msg_fields), entry_index, count)
       \/ /\ InnerLoopCond(i, Len(msg_fields), entry_index, count)
          /\ msg_fields[i + 1].tag \notin CurrentMemberTags
    /\ LET g == CloseGroup(group[1], entry_index, current_entry, count)
           actual_count == Len(g.entries)
       IN  /\ warnings' = IF count > 0 /\ actual_count # count
                          THEN Append(warnings, [kind |-> "count_mismatch",
                                                 tag |-> g.count_field.tag,
                                                 declared |-> count,
                                                 found |-> actual_count])
                          ELSE warnings
           /\ result' = Append(result, MkGroupField(g))
    /\ gpc' = "outer"
    /\ group' = <<>>
    /\ UNCHANGED <<msg_fields, i, count, entry_index, current_entry, seen_tags>>
    /\ UNCHANGED callVars
    /\ UNCHANGED parseVars
    /\ UNCHANGED accessVars

(***************************************************************************)
(* get_structured_fields as one call, and the views built on it            *)
(***************************************************************************)
\* the inner loop from position p on (lines 185-217): the position where the
\* group body ended and the group with its last entry saved
RECURSIVE InnerLoop(_, _, _, _, _, _, _, _)
InnerLoop(fs, p, cnt, mem, idx, entry, seen, g) ==
    IF InnerLoopCond(p, Len(fs), idx, cnt) /\ fs[p + 1].tag \in mem
    THEN IF IsEntryBoundary(entry, seen, fs[p + 1].tag)
         THEN InnerLoop(fs, p + 1, cnt, mem, idx + 1, <<fs[p + 1]>>, {fs[p + 1].tag},
                        [g EXCEPT !.entries = Append(@, MkEntry(idx, entry))])
         ELSE InnerLoop(fs, p + 1, cnt, mem, idx, Append(entry, fs[p + 1]),
                        seen \cup {fs[p + 1].tag}, g)
    ELSE [pos |-> p, group |-> CloseGroup(g, idx, entry, cnt)]

\* the outer loop from position p on (lines 158-231)
RECURSIVE OuterLoop(_, _)
OuterLoop(fs, p) ==
    IF ~(p < Len(fs)) THEN <<>>
    ELSE LET current_field == fs[p + 1]
             group_def == GetGroupDefinition(current_field.tag)
         IN  IF group_def = <<>>
             THEN <<MkStandalone(current_field)>> \o OuterLoop(fs, p + 1)
             ELSE LET r == InnerLoop(fs, p + 1, DeclaredCount(current_field),
                                     group_def[1].member_tags, 1, <<>>, {},
                                     [name |-> group_def[1].name,
                                      count_field |-> current_field,
                                      entries |-> <<>>])
                  IN  <<MkGroupField(r.group)>> \o OuterLoop(fs, r.pos)

\* FixMessage.get_structured_fields()
GetStructuredFields(fs) == OuterLoop(fs, 0)

\* FixField.to_dict: the two descriptions are keys only when they are truthy
FieldToDict(f) ==
    LET vd == FieldValueDescription(f)
    IN  [tag |-> f.tag, name |-> FieldName(f), value |-> f.raw_value,
         value_description |-> IF vd # <<>> /\ vd[1] # <<>> THEN vd ELSE <<>>,
         field_description |-> IF FieldDescription(f) # <<>>
                               THEN <<FieldDescription(f)>> ELSE <<>>]

\* RepeatingGroupEntry.to_dict
EntryToDict(e) ==
    [index |-> e.index, fields |-> [k \in 1..Len(e.fields) |-> FieldToDict(e.fields[k])]]

\* RepeatingGroup.to_dict
GroupToDict(g) ==
    [name |-> g.name, count_tag |-> g.count_field.tag,
     count_tag_name |-> FieldName(g.count_field), count |-> RepeatingGroupCount(g),
     entries |-> [k \in 1..Len(g.entries) |-> EntryToDict(g.entries[k])]]

\* the "fields" list taken from the structured view whatever the argument
DictFields_AlwaysStructured(m, structured) ==
    LET sfs == GetStructuredFields(m.fields)
    IN  [k \in 1..Len(sfs) |-> IF sfs[k].is_group THEN GroupToDict(sfs[k].group[1])
                               ELSE FieldToDict(sfs[k].field[1])]

\* the "fields" list of to_dict
DictFields(m, structured) ==
    IF structured
    THEN LET sfs == GetStructuredFields(m.fields)
         IN  [k \in 1..Len(sfs) |-> IF sfs[k].is_group THEN GroupToDict(sfs[k].group[1])
                                    ELSE FieldToDict(sfs[k].field[1])]
    ELSE [k \in 1..Len(m.fields) |-> FieldToDict(m.fields[k])]

\* FixMessage.to_dict(structured)
ToDict(m, structured) ==
    [begin_string |-> GetValue(m.fields, 8), msg_type |-> GetValue(m.fields, 35),
     sender_comp_id |-> GetValue(m.fields, 49), target_comp_id |-> GetValue(m.fields, 56),
     venue |-> m.venue, product_type |-> m.product_type,
     fields |-> DictFields(m, structured)]

\* `x or 'Unknown'`, None being <<>>
OrUnknown(opt) == IF opt = <<>> \/ opt[1] = <<>> THEN <<85, 110, 107, 110, 111, 119, 110>> ELSE opt[1]

\* one line of to_human_readable, kept as the values it is formatted from
Line(kind, text, f, g, n) == [kind |-> kind, text |-> text, field |-> f, group |-> g, number |-> n]

\* str(field): name, tag, raw value and, if truthy, the value description
FieldLine(kind, f) ==
    Line(kind, (IF kind = "entry_field" THEN <<32, 32, 32, 32>> ELSE <<>>)
               \o FieldName(f) \o <<32, 40>> \o IntToStr(f.tag) \o <<41, 58, 32>> \o f.raw_value
               \o (LET vd == FieldValueDescription(f)
                   IN  IF vd # <<>> /\ vd[1] # <<>> THEN <<32, 40>> \o vd[1] \o <<41>> ELSE <<>>),
         <<f>>, "", 0)

RECURSIVE EntryLines(_)
EntryLines(es) ==
    IF es = <<>> THEN <<>>
    ELSE <<Line("entry", <<32, 32, 91, 69, 110, 116, 114, 121, 32>> \o IntToStr(Head(es).index) \o <<93>>, <<>>, "", Head(es).index)>>
         \o [k \in 1..Len(Head(es).fields) |-> FieldLine("entry_field", Head(es).fields[k])]
         \o EntryLines(Tail(es))

\* the lines of one structured field (lines 288-299)
StructuredLines(sf) ==
    IF sf.is_group
    THEN LET g == sf.group[1]
         IN  <<Line("group", FieldName(g.count_field) \o <<32, 40>> \o IntToStr(g.count_field.tag)
                             \o <<41, 58, 32>> \o IntToStr(RepeatingGroupCount(g)) \o <<32, 45, 32>>,
                    <<g.count_field>>, g.name, RepeatingGroupCount(g)),
               Line("rule", <<EQ>>, <<>>, "", 40)>>
             \o EntryLines(g.entries)
             \o <<Line("blank", <<>>, <<>>, "", 0)>>
    ELSE <<FieldLine("field", sf.field[1])>>

RECURSIVE ConcatLines(_)
ConcatLines(ls) == IF ls = <<>> THEN <<>> ELSE Head(ls) \o ConcatLines(Tail(ls))

\* FixMessage.to_human_readable(structured): the lines joined by "\n"
ToHumanReadable(m, structured) ==
    <<Line("header", <<70, 73, 88, 32, 77, 101, 115, 115, 97, 103, 101, 58, 32>> \o OrUnknown(GetValue(m.fields, 8)), <<>>, "", 0),
      Line("header", <<77, 101, 115, 115, 97, 103, 101, 32, 84, 121, 112, 101, 58, 32>> \o OrUnknown(GetValue(m.fields, 35)), <<>>, "", 0)>>
    \o (IF m.venue # <<>> /\ m.venue[1] # <<>>
        THEN <<Line("header", <<86, 101, 110, 117, 101, 58, 32>> \o m.venue[1], <<>>, "", 0)>> ELSE <<>>)
    \o (IF m.product_type # <<>> /\ m.product_type[1] # <<>>
        THEN <<Line("header", <<80, 114, 111, 100, 117, 99, 116, 32, 84, 121, 112, 101, 58, 32>> \o m.product_type[1], <<>>, "", 0)>> ELSE <<>>)
    \o <<Line("rule", <<MINUS>>, <<>>, "", 50)>>
    \o (IF structured
        THEN LET sfs == GetStructuredFields(m.fields)
             IN  ConcatLines([k \in 1..Len(sfs) |-> StructuredLines(sfs[k])])
        ELSE [k \in 1..Len(m.fields) |-> FieldLine("field", m.fields[k])])

(***************************************************************************)
(* Inputs of get_structured_fields                                         *)
(***************************************************************************)
\* tags after the count field: three members of group 268 and a non-member
BodyTags == {269, 270, 271, 55}

\* values of the count field: 0, 1, 2, 3 and the non-numeric "a", "2a" and ""
CountValues ==
    {<<ZERO>>, <<ZERO + 1>>, <<ZERO + 2>>, <<ZERO + 3>>, <<ChA>>, <<ZERO + 2, ChA>>, <<>>}

\* 8=F, 268=<count>, then the body tags, each value being its position
GroupMessage(cv, tags) ==
    <<[tag |-> 8, raw_value |-> <<ChF>>], [tag |-> 268, raw_value |-> cv]>> \o
    [k \in 1..Len(tags) |-> [tag |-> tags[k], raw_value |-> <<ZERO + k>>]]

GroupInputs ==
    {GroupMessage(cv, tags) :
        cv \in CountValues, tags \in UNION {[1..n -> BodyTags] : n \in 0..MaxGroupBody}}

ParseIdle ==
    /\ dictionary = BaseDictionary
    /\ venue = <<>>
    /\ raw_message = <<>>
    /\ config = ParserConfigDefaults
    /\ kwargs = NoKwargs
    /\ pc = "idle"
    /\ reached = "none"
    /\ normalized = <<>>
    /\ fields = <<>>
    /\ outcome = "none"
    /\ error = <<>>
    /\ returned = <<>>
    /\ prev = NoPrev
    /\ edit = NoEdit
    /\ definitions = <<>>

InitGroup ==
    /\ msg_fields \in GroupInputs
    /\ gpc = "idle"
    /\ i = 0
    /\ result = <<>>
    /\ group = <<>>
    /\ count = 0
    /\ entry_index = 0
    /\ current_entry = <<>>
    /\ seen_tags = {}
    /\ warnings = <<>>
    /\ calls = 0
    /\ first_result = <<>>
    /\ ParseIdle
    /\ AccessIdle

\* the caller keeps the returned list and calls get_structured_fields again on
\* the same message
CallAgain ==
    /\ gpc = "done"
    /\ calls = 1
    /\ first_result' = <<result>>
    /\ gpc' = "idle"
    /\ UNCHANGED <<msg_fields, i, result, group, count, entry_index, current_entry,
                   seen_tags, warnings, calls>>
    /\ UNCHANGED parseVars
    /\ UNCHANGED accessVars

NextGroup ==
    BeginStructured \/ OuterField \/ OuterCountTag \/ InnerMember \/ GroupEnd
    \/ ReturnStructured \/ CallAgain

SpecGroup == InitGroup /\ [][NextGroup]_vars

(***************************************************************************)
(* Inputs with the count tag of a nested group                             *)
(***************************************************************************)
\* tags after 453=<count>: the members 448, 447 and 802 (NoPartySubIDs, the
\* count of a nested group), 523 (a field of that nested group, not a member
\* of 453) and 268 (the count tag of another registered group)
PartyBodyTags == {448, 447, 802, 523, 268}

\* 8=F, 453=<count>, then the body tags, each value being 1
PartyMessage(cv, tags) ==
    <<[tag |-> 8, raw_value |-> <<ChF>>], [tag |-> 453, raw_value |-> cv]>> \o
    [k \in 1..Len(tags) |-> [tag |-> tags[k], raw_value |-> <<ZERO + 1>>]]

PartyInputs ==
    {PartyMessage(cv, tags) :
        cv \in {<<ZERO + 1>>, <<ZERO + 2>>},
        tags \in UNION {[1..n -> PartyBodyTags] : n \in 0..(MaxFields + 1)}}

InitNested ==
    /\ msg_fields \in PartyInputs
    /\ gpc = "idle"
    /\ i = 0
    /\ result = <<>>
    /\ group = <<>>
    /\ count = 0
    /\ entry_index = 0
    /\ current_entry = <<>>
    /\ seen_tags = {}
    /\ warnings = <<>>
    /\ calls = 0
    /\ first_result = <<>>
    /\ ParseIdle
    /\ AccessIdle

SpecNested == InitNested /\ [][NextGroup]_vars

(***************************************************************************)
(* get_structured_fields run to completion                                 *)
(***************************************************************************)
\* bodies of up to MaxFields fields after the count field
ShortGroupInputs ==
    {GroupMessage(cv, tags) :
        cv \in CountValues, tags \in UNION {[1..n -> BodyTags] : n \in 0..MaxFields}}

InitGroupFair ==
    /\ msg_fields \in ShortGroupInputs
    /\ gpc = "idle"
    /\ i = 0
    /\ result = <<>>
    /\ group = <<>>
    /\ count = 0
    /\ entry_index = 0
    /\ current_entry = <<>>
    /\ seen_tags = {}
    /\ warnings = <<>>
    /\ calls = 0
    /\ first_result = <<>>
    /\ ParseIdle
    /\ AccessIdle

\* one statement of the two loops, or the return
LoopStep == OuterField \/ OuterCountTag \/ InnerMember \/ GroupEnd \/ ReturnStructured

\* a call that has begun keeps running: the code is sequential and neither
\* waits nor yields
SpecGroupFair == InitGroupFair /\ [][NextGroup]_vars /\ WF_vars(LoopStep)

(***************************************************************************)
(* Accessor calls on a message                                             *)
(***************************************************************************)
\* tags of the accessed messages, and one tag no message holds
AccessTags == {8, 35, 49, 56, 10}
LookupTags == AccessTags \cup {9999}

\* flat lists of up to MaxFields fields, every value being its position
AccessInputs ==
    {[k \in 1..Len(tags) |-> [tag |-> tags[k], raw_value |-> <<ZERO + k>>]] :
        tags \in UNION {[1..n -> AccessTags] : n \in 0..MaxFields}}

InitAccess ==
    /\ msg_fields \in AccessInputs
    /\ gpc = "idle"
    /\ i = 0
    /\ result = <<>>
    /\ group = <<>>
    /\ count = 0
    /\ entry_index = 0
    /\ current_entry = <<>>
    /\ seen_tags = {}
    /\ warnings = <<>>
    /\ calls = 0
    /\ first_result = <<>>
    /\ ParseIdle
    /\ AccessIdle

\* message.get_field(tag)
CallGetField ==
    \E tag \in LookupTags :
        /\ op' = "get_field"
        /\ arg' = tag
        /\ ret' = [kind |-> "field_or_none", val |-> GetField(msg_fields, tag)]
        /\ UNCHANGED <<message, fix_field>>
        /\ UNCHANGED defaultVars
        /\ UNCHANGED groupVars
        /\ UNCHANGED parseVars

\* message.get_fields(tag)
CallGetFields ==
    \E tag \in LookupTags :
        /\ op' = "get_fields"
        /\ arg' = tag
        /\ ret' = [kind |-> "list", val |-> GetFields(msg_fields, tag)]
        /\ UNCHANGED <<message, fix_field>>
        /\ UNCHANGED defaultVars
        /\ UNCHANGED groupVars
        /\ UNCHANGED parseVars

\* message.begin_string, .msg_type, .sender_comp_id, .target_comp_id, .checksum
ReadHeader ==
    \E h \in DOMAIN HeaderTag :
        /\ op' = h
        /\ arg' = 0
        /\ ret' = [kind |-> "str_or_none", val |-> GetValue(msg_fields, HeaderTag[h])]
        /\ UNCHANGED <<message, fix_field>>
        /\ UNCHANGED defaultVars
        /\ UNCHANGED groupVars
        /\ UNCHANGED parseVars

NextAccess == CallGetField \/ CallGetFields \/ ReadHeader

SpecAccess == InitAccess /\ [][NextAccess]_vars

(***************************************************************************)
(* Property reads on a field                                               *)
(***************************************************************************)
\* bytes of the raw values: 1, 0, Y, ., e, a, - and the space
RawChars == {ZERO + 1, ZERO, ChY, DOT, ChLowerE, ChA, MINUS, SPACE}

RawValues == UNION {[1..n -> RawChars] : n \in 0..MaxRaw}

\* declared type strings: the tested names in several spellings, and others
FieldTypeNames ==
    { <<73, 78, 84>>, <<105, 110, 116>>, <<76, 69, 78, 71, 84, 72>>, <<83, 101, 113, 78, 117, 109>>, <<78, 85, 77, 73, 78, 71, 82, 79, 85, 80>>,
      <<70, 76, 79, 65, 84>>, <<80, 114, 105, 99, 101>>, <<81, 84, 89>>, <<97, 109, 116>>, <<80, 69, 82, 67, 69, 78, 84, 65, 71, 69>>, <<80, 82, 73, 67, 69, 79, 70, 70, 83, 69, 84>>,
      <<66, 79, 79, 76, 69, 65, 78>>, <<66, 111, 111, 108, 101, 97, 110>>, <<83, 84, 82, 73, 78, 71>>, <<85, 84, 67, 84, 73, 77, 69, 83, 84, 65, 77, 80>>, <<66, 79, 79, 76>>, <<>> }

\* tags of fields built without a definition
UndefinedTags == {9999, 0, 270}

\* FixField(tag, raw_value) and FixField(tag, raw_value, definition)
FieldInputs ==
    {[tag |-> t, raw_value |-> r, definition |-> <<>>] :
        t \in UndefinedTags, r \in RawValues}
    \cup
    {[tag |-> 43, raw_value |-> r,
      definition |-> <<MkDefinition(43, <<80, 111, 115, 115, 68, 117, 112, 70, 108, 97, 103>>, ft, <<80, 111, 115, 115, 105, 98, 108, 101>>,
                                    <<[value |-> <<ChY>>, text |-> <<89, 101, 115>>]>>)>>] :
        ft \in FieldTypeNames, r \in RawValues}

InitField ==
    /\ DefaultIdle
    /\ message = NoMessage
    /\ fix_field \in FieldInputs
    /\ op = "none"
    /\ arg = 0
    /\ ret = [kind |-> "none"]
    /\ GroupIdle
    /\ ParseIdle

\* field.name
ReadName ==
    /\ op' = "name"
    /\ ret' = [kind |-> "str", val |-> FieldName(fix_field)]
    /\ UNCHANGED <<message, fix_field, arg>>
    /\ UNCHANGED defaultVars
    /\ UNCHANGED groupVars
    /\ UNCHANGED parseVars

\* field.description
ReadDescription ==
    /\ op' = "description"
    /\ ret' = [kind |-> "str", val |-> FieldDescription(fix_field)]
    /\ UNCHANGED <<message, fix_field, arg>>
    /\ UNCHANGED defaultVars
    /\ UNCHANGED groupVars
    /\ UNCHANGED parseVars

\* field.value_description
ReadValueDescription ==
    /\ op' = "value_description"
    /\ ret' = [kind |-> "str_or_none", val |-> FieldValueDescription(fix_field)]
    /\ UNCHANGED <<message, fix_field, arg>>
    /\ UNCHANGED defaultVars
    /\ UNCHANGED groupVars
    /\ UNCHANGED parseVars

\* field.typed_value
ReadTypedValue ==
    /\ op' = "typed_value"
    /\ ret' = [kind |-> "typed", val |-> TypedValue(fix_field)]
    /\ UNCHANGED <<message, fix_field, arg>>
    /\ UNCHANGED defaultVars
    /\ UNCHANGED groupVars
    /\ UNCHANGED parseVars

NextField == ReadName \/ ReadDescription \/ ReadValueDescription \/ ReadTypedValue

SpecField == InitField /\ [][NextField]_vars

(***************************************************************************)
(* TagDictionary.default() called from several threads                     *)
(***************************************************************************)
\* a thread calls TagDictionary.default(), e.g. through FixParser()
CallDefault ==
    /\ \E t \in Threads :
          /\ callers[t].pc = "idle"
          /\ callers[t].calls < MaxCalls
          /\ callers' = [callers EXCEPT ![t].pc = "check", ![t].calls = @ + 1]
    /\ UNCHANGED <<default_instance, constructed>>
    /\ UNCHANGED <<message, fix_field, op, arg, ret>>
    /\ UNCHANGED groupVars
    /\ UNCHANGED parseVars

\* `if cls._default_instance is not None: return cls._default_instance`
CheckInstance ==
    /\ \E t \in Threads :
          /\ callers[t].pc = "check"
          /\ callers' = IF default_instance # <<>>
                        THEN [callers EXCEPT ![t].pc = "idle",
                                             ![t].got = Append(@, default_instance[1])]
                        ELSE [callers EXCEPT ![t].pc = "build"]
    /\ UNCHANGED <<default_instance, constructed>>
    /\ UNCHANGED <<message, fix_field, op, arg, ret>>
    /\ UNCHANGED groupVars
    /\ UNCHANGED parseVars

\* `dictionary = cls()` and the three loading loops: a new dictionary object,
\* named by its serial number
BuildDictionary ==
    /\ \E t \in Threads :
          /\ callers[t].pc = "build"
          /\ callers' = [callers EXCEPT ![t].pc = "assign",
                                        ![t].dictionary = constructed + 1]
    /\ constructed' = constructed + 1
    /\ UNCHANGED default_instance
    /\ UNCHANGED <<message, fix_field, op, arg, ret>>
    /\ UNCHANGED groupVars
    /\ UNCHANGED parseVars

\* `cls._default_instance = dictionary`
AssignInstance ==
    /\ \E t \in Threads :
          /\ callers[t].pc = "assign"
          /\ default_instance' = <<callers[t].dictionary>>
          /\ callers' = [callers EXCEPT ![t].pc = "return"]
    /\ UNCHANGED constructed
    /\ UNCHANGED <<message, fix_field, op, arg, ret>>
    /\ UNCHANGED groupVars
    /\ UNCHANGED parseVars

\* `return dictionary`
ReturnDictionary ==
    /\ \E t \in Threads :
          /\ callers[t].pc = "return"
          /\ callers' = [callers EXCEPT ![t].pc = "idle",
                                        ![t].got = Append(@, callers[t].dictionary)]
    /\ UNCHANGED <<default_instance, constructed>>
    /\ UNCHANGED <<message, fix_field, op, arg, ret>>
    /\ UNCHANGED groupVars
    /\ UNCHANGED parseVars

InitDefault ==
    /\ DefaultIdle
    /\ message = NoMessage
    /\ fix_field = NoField
    /\ op = "none"
    /\ arg = 0
    /\ ret = [kind |-> "none"]
    /\ GroupIdle
    /\ ParseIdle

\* one statement of one thread; the interpreter may switch threads between
\* any two of them
NextDefault ==
    CallDefault \/ CheckInstance \/ BuildDictionary \/ AssignInstance \/ ReturnDictionary

SpecDefault == InitDefault /\ [][NextDefault]_vars

(***************************************************************************)
(* Views of a message                                                      *)
(***************************************************************************)
\* fields of the viewed messages: header fields with a definition, the count
\* field of group 268 with a numeric and a non-numeric value, a member field
ViewFields ==
    {[tag |-> 8, raw_value |-> <<ChF>>, definition |-> DictGet(BaseDictionary, 8)],
     [tag |-> 35, raw_value |-> <<ZERO>>, definition |-> DictGet(BaseDictionary, 35)],
     [tag |-> 268, raw_value |-> <<ZERO + 1>>, definition |-> <<>>],
     [tag |-> 268, raw_value |-> <<ChA>>, definition |-> <<>>],
     [tag |-> 269, raw_value |-> <<ZERO>>, definition |-> <<>>],
     [tag |-> 55, raw_value |-> <<ChE>>, definition |-> DictGet(BaseDictionary, 55)]}

\* FixMessage(fields, raw_message, venue, product_type)
ViewInputs ==
    {[fields |-> fs, raw_message |-> <<ZERO + 8, EQ, ChF, SOH>>, venue |-> v, product_type |-> pt] :
        fs \in UNION {[1..n -> ViewFields] : n \in 0..MaxFields},
        v \in {<<>>, << <<70, 88, 71, 79>> >>},
        pt \in {<<>>, << <<83, 80, 79, 84>> >>}}

InitView ==
    /\ DefaultIdle
    /\ message \in ViewInputs
    /\ fix_field = NoField
    /\ op = "none"
    /\ arg = 0
    /\ ret = [kind |-> "none"]
    /\ GroupIdle
    /\ ParseIdle

\* message.get_structured_fields()
CallGetStructuredFields ==
    /\ op' = "get_structured_fields"
    /\ ret' = [kind |-> "structured", val |-> GetStructuredFields(message.fields)]
    /\ UNCHANGED <<message, fix_field, arg>>
    /\ UNCHANGED defaultVars
    /\ UNCHANGED groupVars
    /\ UNCHANGED parseVars

\* message.to_dict(structured)
CallToDict ==
    \E structured \in BOOLEAN :
        /\ op' = "to_dict"
        /\ ret' = [kind |-> "dict", structured |-> structured,
                   val |-> ToDict(message, structured)]
        /\ UNCHANGED <<message, fix_field, arg>>
        /\ UNCHANGED defaultVars
        /\ UNCHANGED groupVars
        /\ UNCHANGED parseVars

\* message.to_human_readable(structured)
CallToHumanReadable ==
    \E structured \in BOOLEAN :
        /\ op' = "to_human_readable"
        /\ ret' = [kind |-> "lines", structured |-> structured,
                   val |-> ToHumanReadable(message, structured)]
        /\ UNCHANGED <<message, fix_field, arg>>
        /\ UNCHANGED defaultVars
        /\ UNCHANGED groupVars
        /\ UNCHANGED parseVars

NextView == CallGetStructuredFields \/ CallToDict \/ CallToHumanReadable

SpecView == InitView /\ [][NextView]_vars

(***************************************************************************)
(* Properties of parse                                                     *)
(***************************************************************************)
\* the required envelope: 8 first, 9 second, 35 third, 10 last
EnvelopeOk(fs) ==
    /\ Len(fs) >= 3
    /\ fs[1].tag = 8
    /\ fs[2].tag = 9
    /\ fs[3].tag = 35
    /\ fs[Len(fs)].tag = 10

\* C1: whenever the tokenizer produced at least one field, parse returns a
\* message only if the envelope positions hold (8, 9, 35 first, 10 last), and a
\* violated position always ends in ValidationError, in strict and non-strict
\* checksum mode alike, never in ChecksumError or success.
C1_EnvelopeChecked ==
    (pc = "done" /\ fields # <<>>) =>
        /\ (outcome = "ok" => EnvelopeOk(fields))
        /\ (~EnvelopeOk(fields) => (outcome = "ValidationError" /\ returned = <<>>))

\* a strict-mode call whose third field is misplaced and whose declared checksum
\* is also wrong: it ended in ValidationError
C1_Witness ==
    /\ pc = "done"
    /\ config.strict_checksum
    /\ Len(fields) >= 4
    /\ fields[1].tag = 8 /\ fields[2].tag = 9 /\ fields[3].tag # 35
    /\ fields[Len(fields)].tag = 10
    /\ ValidateChecksum(fields, normalized).type = "ChecksumError"
    /\ outcome = "ValidationError"

AllSpace(m) == \A k \in 1..Len(m) : IsSpace(m[k])

\* C7: empty or whitespace-only input ends in ParseError "Empty message" with
\* neither normalization nor tokenizing run; other input without any
\* tag=value token ends in ParseError "No valid fields found in message".
C7_MalformedInput ==
    pc = "done" =>
        /\ AllSpace(raw_message) =>
              /\ outcome = "ParseError"
              /\ error = <<MkError("ParseError", "Empty message")>>
              /\ reached = "empty_check"
              /\ normalized = <<>> /\ fields = <<>>
        /\ (~AllSpace(raw_message) /\ fields = <<>>) =>
              /\ outcome = "ParseError"
              /\ error = <<MkError("ParseError", "No valid fields found in message")>>
              /\ reached = "extract"
        /\ outcome = "ParseError" => outcome \notin {"ValidationError", "ChecksumError"}

\* a whitespace-only input that is not the empty string was rejected
C7_Witness ==
    /\ pc = "done"
    /\ raw_message # <<>>
    /\ AllSpace(raw_message)
    /\ Contains(raw_message, SPACE)
    /\ outcome = "ParseError"

\* C8: a finished call either returned the message built from the validated
\* fields or raised an exception of the ParseError family and returned nothing.
C8_AllOrNothing ==
    pc = "done" =>
        \/ /\ outcome = "ok"
           /\ error = <<>>
           /\ returned = <<MkMessage(fields, raw_message, <<>>)>>
           /\ EnvelopeOk(fields)
        \/ /\ outcome \in {"ParseError", "ValidationError", "ChecksumError"}
           /\ IsParseError(outcome)
           /\ Len(error) = 1 /\ error[1].type = outcome
           /\ returned = <<>>

\* a call that raised ChecksumError and handed nothing to the caller
C8_Witness ==
    /\ pc = "done"
    /\ outcome = "ChecksumError"
    /\ fields # <<>>
    /\ returned = <<>>

(***************************************************************************)
(* Properties of resubmission                                              *)
(***************************************************************************)
NoBreaks(m) == ~Contains(m, CR) /\ ~Contains(m, LF)

\* FixMessage.checksum of the returned message
ReturnedChecksum == GetField(returned[1].fields, 10)[1].raw_value

\* the body B of a message built as B + "10=" + calculate_checksum(B) + SOH
C3Body == SubSeq(raw_message, 1, Len(raw_message) - 7)

\* the message under parse was built that way from a body starting 8, 9, 35
C3Built ==
    /\ edit.kind = "none"
    /\ Len(raw_message) > 7
    /\ raw_message = WithTrailer(C3Body, CalculateChecksum(C3Body), SOH)
    /\ LET f == ExtractFields(C3Body)
       IN  Len(f) >= 3 /\ f[1].tag = 8 /\ f[2].tag = 9 /\ f[3].tag = 35

\* C3 as stated: every body B starting with 8, 9, 35, followed by 10=<c> SOH
\* with c = (byte sum of B) mod 256 in 3 digits, parses under strict checksum
\* and the message's checksum is c.
C3_Original ==
    (pc = "done" /\ config.strict_checksum /\ C3Built) =>
        (outcome = "ok" /\ ReturnedChecksum = CalculateChecksum(C3Body))

\* the bodies for which the statement holds: SOH-terminated, already in
\* normalized form (no CR or LF, no pipe when pipes are substituted) and
\* without a tag-10 field of their own
C3BodyNormalized ==
    /\ C3Body[Len(C3Body)] = SOH
    /\ NoBreaks(C3Body)
    /\ config.allow_pipe_delimiter => ~Contains(C3Body, PIPE)
    /\ GetField(ExtractFields(C3Body), 10) = <<>>

\* C3 (amended): for a body B of SOH-terminated fields starting 8, 9, 35 that
\* holds no CR or LF, no pipe when allow_pipe_delimiter is on, and no tag-10
\* field, B + 10=<c> SOH with c = (byte sum of B) mod 256 in 3 digits parses
\* under strict checksum and the message's checksum is c.
C3_ChecksumAccepted ==
    (pc = "done" /\ config.strict_checksum /\ C3Built /\ C3BodyNormalized) =>
        (outcome = "ok" /\ ReturnedChecksum = CalculateChecksum(C3Body))

\* such a message with a body field beyond the envelope was accepted
C3_Witness ==
    /\ pc = "done" /\ config.strict_checksum /\ config.allow_pipe_delimiter
    /\ C3Built /\ C3BodyNormalized
    /\ Len(fields) >= 5
    /\ outcome = "ok"

\* the changed byte lies inside the value of a field of the previous call whose
\* tag is not 10
FlipInBodyValue ==
    LET spans == FindSpans(prev.normalized, 1)
    IN  \E n \in 1..Len(spans) :
            /\ prev.fields[n].tag # 10
            /\ spans[n].eq < edit.pos
            /\ edit.pos < spans[n].vend

\* C4 as stated: after a message was accepted under strict checksum, changing
\* any single byte of its body to a different value ends in ChecksumError.
C4_Original ==
    (pc = "done" /\ edit.kind = "flip" /\ prev.outcome = "ok"
     /\ config.strict_checksum) => outcome = "ChecksumError"

\* C4 (amended): after a message without CR or LF was accepted under strict
\* checksum, changing a single byte inside the value of a body field (tag other
\* than 10) to a different byte that is not SOH, CR, LF or, when
\* allow_pipe_delimiter is on, the pipe, ends in ChecksumError.
C4_ValueFlipDetected ==
    (/\ pc = "done" /\ edit.kind = "flip" /\ prev.outcome = "ok"
     /\ config.strict_checksum
     /\ NoBreaks(prev.raw_message)
     /\ FlipInBodyValue
     /\ edit.byte[1] \notin {SOH, CR, LF}
     /\ (config.allow_pipe_delimiter => edit.byte[1] # PIPE))
    => (outcome = "ChecksumError" /\ returned = <<>>)

\* a value byte of the fourth field was changed and the call ended in
\* ChecksumError carrying the declared checksum as actual
C4_Witness ==
    /\ pc = "done" /\ edit.kind = "flip" /\ prev.outcome = "ok"
    /\ config.strict_checksum
    /\ FlipInBodyValue
    /\ edit.byte[1] \notin {SOH, CR, LF, PIPE}
    /\ Len(prev.fields) >= 5
    /\ prev.fields[4].raw_value # fields[4].raw_value
    /\ outcome = "ChecksumError"
    /\ error[1].actual = prev.fields[Len(prev.fields)].raw_value

\* C5: with allow_pipe_delimiter on, a message and the same message with every
\* SOH written as a pipe (or every pipe as SOH) end the same way and yield the
\* same flat field sequence.
C5_DelimiterEquivalence ==
    (pc = "done" /\ edit.kind \in {"soh_to_pipe", "pipe_to_soh"}
     /\ config.allow_pipe_delimiter)
    => (outcome = prev.outcome /\ fields = prev.fields)

\* an accepted SOH message was rewritten with pipes and accepted again
C5_Witness ==
    /\ pc = "done" /\ edit.kind = "soh_to_pipe"
    /\ config.allow_pipe_delimiter
    /\ ~Contains(prev.raw_message, PIPE) /\ ~Contains(raw_message, SOH)
    /\ prev.outcome = "ok" /\ outcome = "ok"
    /\ Len(fields) >= 5

DefinedBy(defns, tag) ==
    IF \E j \in 1..Len(defns) : defns[j].tag = tag
    THEN <<defns[CHOOSE j \in 1..Len(defns) : defns[j].tag = tag]>>
    ELSE <<>>

\* a returned message of a call given a venue with custom tags
C19Result ==
    (pc = "done" /\ returned # <<>> /\ venue # <<>> /\ venue[1].custom_tags # <<>>) =>
        /\ returned[1].venue = <<venue[1].name>>
        /\ Len(definitions) = Len(fields)
        /\ \A k \in 1..Len(fields) :
              definitions[k] =
                 IF DefinedBy(venue[1].custom_tags, fields[k].tag) # <<>>
                 THEN DefinedBy(venue[1].custom_tags, fields[k].tag)
                 ELSE IF fields[k].tag \in DOMAIN dictionary
                      THEN <<dictionary[fields[k].tag]>>
                      ELSE <<>>

\* C19: parse given a venue with custom tags gives every field the venue's
\* definition when the venue defines the tag and the base dictionary's
\* otherwise, sets message.venue to the handler's name, and leaves the
\* parser's dictionary with the definitions it had before the call.
C19_VenueDefinitions == [][dictionary' = dictionary]_vars /\ []C19Result

\* tag 8004, defined by the base dictionary and by the venue, got the venue's
\* definition, and tag 55 the base's
C19_Witness ==
    /\ pc = "done" /\ returned # <<>>
    /\ venue = <<SmartTradeHandler>>
    /\ 8004 \in DOMAIN dictionary
    /\ Len(fields) = 6
    /\ fields[4].tag = 8004 /\ fields[5].tag = 55
    /\ definitions[4] = <<SmartTradeHandler.custom_tags[1]>>
    /\ definitions[4] # <<dictionary[8004]>>
    /\ definitions[5] = <<dictionary[55]>>

(***************************************************************************)
(* Configuration options                                                   *)
(***************************************************************************)
\* the text is SOH-delimited and its last field, a tag-10 field, is not
\* followed by SOH
FinalChecksumUnterminated ==
    LET spans == FindSpans(raw_message, 1)
    IN  /\ Contains(raw_message, SOH)
        /\ raw_message[Len(raw_message)] # SOH
        /\ spans # <<>>
        /\ SubSeq(raw_message, spans[Len(spans)].start, spans[Len(spans)].eq - 1)
              = <<ZERO + 1, ZERO>>

\* C17: a configuration built without naming strict_delimiter has the option
\* strict_delimiter, set to False; with strict_delimiter=True a message whose
\* final 10= field lacks the trailing SOH ends in a ValidationError about the
\* CheckSum.
C17_StrictDelimiter ==
    /\ (pc # "new" /\ kwargs.strict_delimiter = <<>>) =>
          /\ "strict_delimiter" \in DOMAIN config
          /\ config.strict_delimiter = FALSE
    /\ (pc = "done" /\ kwargs.strict_delimiter = <<TRUE>>
        /\ FinalChecksumUnterminated) =>
          /\ outcome = "ValidationError"
          /\ error[1].message \in {"Message must end with CheckSum (tag 10)",
                                   "Missing CheckSum (tag 10)"}

\* first index >= k (or Len+1) holding the delimiter d
RECURSIVE ValueEndAt(_, _, _)
ValueEndAt(s, k, d) ==
    IF k <= Len(s) /\ s[k] # d THEN ValueEndAt(s, k + 1, d) ELSE k

\* the fields of a text whose values end at the delimiter d
RECURSIVE TokensAt(_, _, _)
TokensAt(s, k, d) ==
    IF k > Len(s) THEN <<>>
    ELSE IF ~MatchesAt(s, k) THEN TokensAt(s, k + 1, d)
    ELSE LET e  == DigitRunEnd(s, k)
             ve == ValueEndAt(s, e + 1, d)
         IN  <<[tag |-> DigitsToInt(SubSeq(s, k, e - 1)),
                raw_value |-> SubSeq(s, e + 1, ve - 1)]>>
             \o TokensAt(s, IF ve <= Len(s) THEN ve + 1 ELSE ve, d)

\* C18: the tokenizer splits the text at the configured delimiter
\* (ParserConfig.default_delimiter): every field value ends at that delimiter.
C18_ConfiguredDelimiter ==
    (pc = "done" /\ reached \in {"extract", "validate"}) =>
        fields = TokensAt(normalized, 1, config.default_delimiter)

(***************************************************************************)
(* Checksum reporting                                                      *)
(***************************************************************************)
\* calculate_checksum of the normalized text before the last "10="
Recomputed == CalculateChecksum(SubSeq(normalized, 1, RFind10(normalized, Len(normalized)) - 1))

\* the fields of this call are those of the previous one, the value of field
\* edit.pos apart
SameButChecksum ==
    /\ Len(fields) = Len(prev.fields)
    /\ \A k \in 1..Len(fields) :
          /\ fields[k].tag = prev.fields[k].tag
          /\ k # edit.pos => fields[k].raw_value = prev.fields[k].raw_value

TrailerValue == fields[Len(fields)].raw_value

\* C20: under strict_checksum with a valid envelope, parse succeeds if and
\* only if the raw value of the last field, the trailing tag-10 field, equals
\* calculate_checksum of the normalized text before the last "10="; otherwise
\* it raises ChecksumError whose actual is that trailer value.
C20_TrailerCompared ==
    (pc = "done" /\ config.strict_checksum /\ EnvelopeOk(fields)) =>
        /\ outcome = "ok" <=> TrailerValue = Recomputed
        /\ outcome # "ok" => error = <<MkChecksumError(Recomputed, TrailerValue)>>

(***************************************************************************)
(* Properties of get_structured_fields                                     *)
(***************************************************************************)
Tags(fs) == [k \in 1..Len(fs) |-> fs[k].tag]

RECURSIVE ConcatEntries(_)
ConcatEntries(es) ==
    IF es = <<>> THEN <<>> ELSE Head(es).fields \o ConcatEntries(Tail(es))

\* the flat fields one structured field stands for
FlatOf(sf) ==
    IF sf.is_group
    THEN <<sf.group[1].count_field>> \o ConcatEntries(sf.group[1].entries)
    ELSE sf.field

RECURSIVE Flatten(_)
Flatten(r) == IF r = <<>> THEN <<>> ELSE FlatOf(Head(r)) \o Flatten(Tail(r))

\* 1-based position in the flat list of the first field of result[k]
PosOf(k) == Len(Flatten(SubSeq(result, 1, k - 1))) + 1

\* one step of the inner loop that consumed the member field fld
C2Step ==
    (gpc = "inner" /\ gpc' = "inner" /\ i' = i + 1) =>
        LET fld == msg_fields[i + 1]
        IN  IF \E k \in 1..Len(current_entry) : current_entry[k].tag = fld.tag
            THEN /\ group'[1].entries =
                       Append(group[1].entries, MkEntry(entry_index, current_entry))
                 /\ current_entry' = <<fld>>
                 /\ entry_index' = entry_index + 1
            ELSE /\ group'[1].entries = group[1].entries
                 /\ current_entry' = Append(current_entry, fld)
                 /\ entry_index' = entry_index

\* the flat list 8, 268=2, 269, 270, 271, 270, 271
C2ExampleInput ==
    /\ Tags(msg_fields) = <<8, 268, 269, 270, 271, 270, 271>>
    /\ msg_fields[2].raw_value = <<ZERO + 2>>

C2Example ==
    (gpc = "done" /\ C2ExampleInput) =>
        /\ Len(result) = 2 /\ result[2].is_group
        /\ result[2].group[1].entries =
              <<MkEntry(1, SubSeq(msg_fields, 3, 5)), MkEntry(2, SubSeq(msg_fields, 6, 7))>>

\* C2: inside a group body, a member field starts a new entry exactly when
\* its tag already occurs in the current entry (any earlier tag, not only the
\* first): the buffer is flushed as the finished entry and the field becomes
\* the first field of the next one; [268=2, 269, 270, 271, 270, 271] yields
\* [269, 270, 271] and [270, 271].
C2_EntryBoundary == [][C2Step]_vars /\ []C2Example

\* the example was reconstructed into two entries, the second starting at the
\* repeated 270
C2_Witness ==
    /\ gpc = "done" /\ C2ExampleInput
    /\ Len(result[2].group[1].entries) = 2
    /\ result[2].group[1].entries[2].fields[1] = msg_fields[6]

\* C9: a group whose declared count exceeds the entries found holds exactly
\* the fields observed before the first non-member tag or the end of the
\* list, and the reconstruction goes on to return the rest of the message.
C9_FewerEntriesThanDeclared ==
    gpc = "done" =>
        \A k \in 1..Len(result) :
            (result[k].is_group
             /\ DeclaredCount(result[k].group[1].count_field)
                  > Len(result[k].group[1].entries))
            => LET g    == result[k].group[1]
                   body == ConcatEntries(g.entries)
                   p    == PosOf(k)
                   nxt  == p + Len(body) + 1
                   mem  == GetGroupDefinition(g.count_field.tag)[1].member_tags
               IN  /\ g.count_field = msg_fields[p]
                   /\ body = SubSeq(msg_fields, p + 1, p + Len(body))
                   /\ \A n \in 1..Len(g.entries) : g.entries[n].index = n
                   /\ nxt <= Len(msg_fields) => msg_fields[nxt].tag \notin mem
                   /\ Flatten(result) = msg_fields

\* declared 3, found 2, and the non-member field after the body was emitted
C9_Witness ==
    /\ gpc = "done"
    /\ Len(result) >= 3
    /\ result[2].is_group
    /\ DeclaredCount(result[2].group[1].count_field) = 3
    /\ Len(result[2].group[1].entries) = 2
    /\ ~result[3].is_group
    /\ result[3].field[1].tag = 55
    /\ Len(warnings) = 1 /\ warnings[1].kind = "count_mismatch"

\* C10: a count field declaring 0 yields a group without entries, and a
\* member-tag field right after it is emitted as the next standalone field.
C10_ZeroCount ==
    gpc = "done" =>
        \A k \in 1..Len(result) :
            (result[k].is_group
             /\ PyInt(result[k].group[1].count_field.raw_value).ok
             /\ DeclaredCount(result[k].group[1].count_field) = 0)
            => LET g   == result[k].group[1]
                   p   == PosOf(k)
                   mem == GetGroupDefinition(g.count_field.tag)[1].member_tags
               IN  /\ g.entries = <<>>
                   /\ (p + 1 <= Len(msg_fields) /\ msg_fields[p + 1].tag \in mem)
                        => /\ k + 1 <= Len(result)
                           /\ result[k + 1] = MkStandalone(msg_fields[p + 1])

\* 268=0 followed by member tags: an empty group, then the members standalone
C10_Witness ==
    /\ gpc = "done"
    /\ msg_fields[2].raw_value = <<ZERO>>
    /\ Len(msg_fields) >= 4
    /\ msg_fields[3].tag = 269 /\ msg_fields[4].tag = 270
    /\ result[2].is_group /\ result[2].group[1].entries = <<>>
    /\ result[3] = MkStandalone(msg_fields[3])
    /\ result[4] = MkStandalone(msg_fields[4])

\* the count field of a group whose value int() rejects
NonNumericCount(f) == ~PyInt(f.raw_value).ok

\* C11: a non-numeric value in a group count field is never fatal:
\* RepeatingGroup.count is 0, the reconstruction takes the declared count as
\* 0 and logs a warning, the group is emitted without entries, and the call
\* goes on to return every field of the message.
C11_NonNumericCount ==
    /\ (gpc = "inner" /\ NonNumericCount(group[1].count_field)) =>
           /\ count = 0
           /\ group[1].entries = <<>> /\ current_entry = <<>>
           /\ RepeatingGroupCount(group[1]) = 0
           /\ ENABLED GroupEnd
    /\ \A k \in 1..Len(result) :
           (result[k].is_group /\ NonNumericCount(result[k].group[1].count_field)) =>
               /\ result[k].group[1].entries = <<>>
               /\ RepeatingGroupCount(result[k].group[1]) = 0
               /\ \E w \in 1..Len(warnings) :
                      /\ warnings[w].kind = "non_numeric_count"
                      /\ warnings[w].tag = result[k].group[1].count_field.tag
    /\ (gpc = "outer" /\ \E k \in 1..Len(msg_fields) :
                            /\ GetGroupDefinition(msg_fields[k].tag) # <<>>
                            /\ NonNumericCount(msg_fields[k])) =>
           ENABLED (OuterField \/ OuterCountTag \/ ReturnStructured)
    /\ (gpc = "done" /\ \E k \in 1..Len(msg_fields) :
                            /\ GetGroupDefinition(msg_fields[k].tag) # <<>>
                            /\ NonNumericCount(msg_fields[k])) =>
           Flatten(result) = msg_fields

\* 268=2a followed by member fields: an empty group, the members standalone
C11_Witness ==
    /\ gpc = "done"
    /\ msg_fields[2].raw_value = <<ZERO + 2, ChA>>
    /\ Len(msg_fields) >= 4
    /\ msg_fields[3].tag = 269 /\ msg_fields[4].tag = 270
    /\ result[2].is_group /\ result[2].group[1].entries = <<>>
    /\ RepeatingGroupCount(result[2].group[1]) = 0
    /\ result[3] = MkStandalone(msg_fields[3])
    /\ Len(result) = Len(msg_fields)

\* C12: two calls of get_structured_fields on the same flat field list return
\* the same sequence of standalone fields and groups, with the same entries
\* (count, indices, field order); the second call starts from an empty
\* result at position 0 whatever the first call left behind.
C12_Deterministic ==
    /\ (calls = 2 /\ gpc = "done") => result = first_result[1]
    /\ (calls = 2 /\ gpc \in {"outer", "inner"}) =>
           /\ Len(result) <= Len(first_result[1])
           /\ result = SubSeq(first_result[1], 1, Len(result))

\* a second call that rebuilt a group of two entries equal to the first call's
C12_Witness ==
    /\ calls = 2 /\ gpc = "done"
    /\ result = first_result[1]
    /\ \E k \in 1..Len(result) :
           /\ result[k].is_group
           /\ Len(result[k].group[1].entries) = 2
           /\ Len(result[k].group[1].entries[1].fields) = 2

(***************************************************************************)
(* Properties of the accessors                                             *)
(***************************************************************************)
\* positions of the flat list holding the tag
Matches(tag) == {k \in 1..Len(msg_fields) : msg_fields[k].tag = tag}

\* the smallest such position
FirstMatch(tag) == CHOOSE k \in Matches(tag) : \A m \in Matches(tag) : k <= m

\* the n-th such position, in list order
NthMatch(tag, n) ==
    CHOOSE k \in Matches(tag) : Cardinality({m \in Matches(tag) : m < k}) = n - 1

\* C13: get_field(tag) returns the first field of the flat list with the tag
\* and None when there is none; get_fields(tag) returns all fields with the
\* tag in flat-list order (the empty list when there is none); begin_string,
\* msg_type, sender_comp_id, target_comp_id and checksum give the raw value of
\* the first field with tag 8, 35, 49, 56 and 10, or None.
C13_Accessors ==
    /\ op = "get_field" =>
           /\ ret.kind = "field_or_none"
           /\ IF Matches(arg) = {} THEN ret.val = <<>>
              ELSE ret.val = <<msg_fields[FirstMatch(arg)]>>
    /\ op = "get_fields" =>
           /\ ret.kind = "list"
           /\ Len(ret.val) = Cardinality(Matches(arg))
           /\ \A n \in 1..Len(ret.val) : ret.val[n] = msg_fields[NthMatch(arg, n)]
    /\ op \in DOMAIN HeaderTag =>
           /\ ret.kind = "str_or_none"
           /\ IF Matches(HeaderTag[op]) = {} THEN ret.val = <<>>
              ELSE ret.val = <<msg_fields[FirstMatch(HeaderTag[op])].raw_value>>

\* a tag held twice: get_field gave the earlier of the two fields
C13_Witness ==
    /\ op = "get_field"
    /\ Cardinality(Matches(arg)) = 2
    /\ msg_fields[1].tag # arg
    /\ ret.val = <<msg_fields[2]>>

(***************************************************************************)
(* Properties of FixField                                                  *)
(***************************************************************************)
\* the text is "Unknown(", the decimal form of n without leading zeros, ")"
IsUnknownName(text, n) ==
    LET digits == SubSeq(text, 9, Len(text) - 1)
    IN  /\ Len(text) >= 10
        /\ SubSeq(text, 1, 8) = <<85, 110, 107, 110, 111, 119, 110, 40>>
        /\ text[Len(text)] = 41
        /\ \A k \in 1..Len(digits) : IsDigit(digits[k])
        /\ Len(digits) > 1 => digits[1] # ZERO
        /\ DigitsToInt(digits) = n

\* C14: a field without a definition has the name Unknown(<tag>), an empty
\* description, no value description, and a typed value that is its raw
\* string.
C14_UnknownTag ==
    fix_field.definition = <<>> =>
        /\ op = "name" => IsUnknownName(ret.val, fix_field.tag)
        /\ op = "description" => ret.val = <<>>
        /\ op = "value_description" => ret.val = <<>>
        /\ op = "typed_value" =>
              (ret.val.kind = "str" /\ ret.val.text = fix_field.raw_value)

\* the name of the undefined tag 9999 was read as Unknown(9999)
C14_Witness ==
    /\ fix_field.definition = <<>>
    /\ fix_field.tag = 9999
    /\ op = "name"
    /\ ret.val = <<85, 110, 107, 110, 111, 119, 110, 40, 57, 57, 57, 57, 41>>

\* the category of each declared type string
IsIntType(ft) == ft \in { <<73, 78, 84>>, <<105, 110, 116>>, <<76, 69, 78, 71, 84, 72>>, <<83, 101, 113, 78, 117, 109>>, <<78, 85, 77, 73, 78, 71, 82, 79, 85, 80>> }
IsFloatType(ft) ==
    ft \in { <<70, 76, 79, 65, 84>>, <<80, 114, 105, 99, 101>>, <<81, 84, 89>>, <<97, 109, 116>>, <<80, 69, 82, 67, 69, 78, 84, 65, 71, 69>>, <<80, 82, 73, 67, 69, 79, 70, 70, 83, 69, 84>> }
IsBooleanType(ft) == ft \in { <<66, 79, 79, 76, 69, 65, 78>>, <<66, 111, 111, 108, 101, 97, 110>> }

\* typed_value read from a field with a definition: the result per category
C15Result ==
    (op = "typed_value" /\ fix_field.definition # <<>>) =>
        LET ft  == fix_field.definition[1].field_type
            raw == fix_field.raw_value
            v   == ret.val
        IN  /\ v.kind \in {"str", "int", "float", "bool"}
            /\ IsBooleanType(ft) =>
                  /\ v.kind = "bool"
                  /\ v.bool <=> (raw = <<ChY>> \/ raw = <<ZERO + 1>>)
            /\ (IsIntType(ft) /\ ~PyInt(raw).ok) => (v.kind = "str" /\ v.text = raw)
            /\ (IsIntType(ft) /\ PyInt(raw).ok) => v.kind = "int"
            /\ (IsFloatType(ft) /\ ~PyFloat(raw).ok) => (v.kind = "str" /\ v.text = raw)
            /\ (IsFloatType(ft) /\ PyFloat(raw).ok) => v.kind = "float"
            /\ (~IsIntType(ft) /\ ~IsFloatType(ft) /\ ~IsBooleanType(ft)) =>
                  (v.kind = "str" /\ v.text = raw)

\* C15: typed_value always returns a value and leaves the field as it was; a
\* BOOLEAN definition gives true exactly for the raw values Y and 1; an
\* integer-like or float-like definition gives the raw string back when the
\* value does not parse; the declared type is matched without regard to
\* case, and any other type gives the raw string.
C15_TypedValue == [][fix_field' = fix_field]_vars /\ []C15Result

\* a PRICE definition spelled "Price" gave back the unparsable "1.a"
C15_Witness ==
    /\ op = "typed_value"
    /\ fix_field.definition # <<>>
    /\ fix_field.definition[1].field_type = <<80, 114, 105, 99, 101>>
    /\ fix_field.raw_value = <<ZERO + 1, DOT, ChA>>
    /\ ret.val.kind = "str" /\ ret.val.text = fix_field.raw_value

(***************************************************************************)
(* Conservation, bounds and shape of the reconstruction                    *)
(***************************************************************************)
\* the flat fields consumed so far, in output order
Consumed ==
    IF gpc = "inner"
    THEN Flatten(result) \o <<group[1].count_field>>
         \o ConcatEntries(group[1].entries) \o current_entry
    ELSE Flatten(result)

\* leaving a group body keeps the position: the field that ended the body is
\* the next one the outer loop reads
C21Step == (gpc = "inner" /\ gpc' = "outer") => i' = i

\* at every point of a call the output holds the fields before position i
C21Prefix ==
    /\ gpc \in {"outer", "inner", "done"} => Consumed = SubSeq(msg_fields, 1, i)
    /\ gpc = "done" => Flatten(result) = msg_fields

\* C21: concatenating in output order each standalone field, and for each
\* group its count field followed by the fields of its entries, reproduces
\* the flat list; the field at which a group body ends is neither skipped
\* nor consumed twice but is processed next by the outer loop.
C21_Conservation == [][C21Step]_vars /\ []C21Prefix

\* a group body of two entries ended by the non-member field 55, which came
\* out as the next standalone field, followed by a member tag outside a group
C21_Witness ==
    /\ gpc = "done"
    /\ Tags(msg_fields) = <<8, 268, 269, 270, 269, 55, 270>>
    /\ msg_fields[2].raw_value = <<ZERO + 3>>
    /\ Len(result) = 4
    /\ result[2].is_group /\ Len(result[2].group[1].entries) = 2
    /\ result[3] = MkStandalone(msg_fields[6])
    /\ result[4] = MkStandalone(msg_fields[7])
    /\ Flatten(result) = msg_fields

\* C22: a group with declared count k >= 1 never holds more than k entries,
\* whatever member-tag fields follow the count field.
C22_AtMostDeclared ==
    \A k \in 1..Len(result) :
        (result[k].is_group /\ DeclaredCount(result[k].group[1].count_field) >= 1) =>
            Len(result[k].group[1].entries)
               <= DeclaredCount(result[k].group[1].count_field)

\* the tags of an entry's fields are pairwise different
NoTagTwice(fs) == \A a, b \in 1..Len(fs) : fs[a].tag = fs[b].tag => a = b

\* entries indexed 1..n, each non-empty, of member tags, without a repeated tag
WellFormed(g) ==
    LET mem == GetGroupDefinition(g.count_field.tag)[1].member_tags
    IN  \A n \in 1..Len(g.entries) :
            /\ g.entries[n].index = n
            /\ g.entries[n].fields # <<>>
            /\ \A k \in 1..Len(g.entries[n].fields) : g.entries[n].fields[k].tag \in mem
            /\ NoTagTwice(g.entries[n].fields)

\* C23: every group returned by get_structured_fields is well formed: its
\* entries carry the indices 1..n in order, every entry is non-empty, all
\* fields of an entry have member tags of the group's definition, and no tag
\* occurs twice within one entry.
C23_WellFormedGroups ==
    /\ \A k \in 1..Len(result) : result[k].is_group => WellFormed(result[k].group[1])
    /\ gpc = "inner" => WellFormed(group[1]) /\ NoTagTwice(current_entry)

\* a returned group of two entries, the first of three fields
C23_Witness ==
    /\ gpc = "done"
    /\ \E k \in 1..Len(result) :
           /\ result[k].is_group
           /\ Len(result[k].group[1].entries) = 2
           /\ Len(result[k].group[1].entries[1].fields) = 3
           /\ result[k].group[1].entries[2].index = 2

(***************************************************************************)
(* Properties of the tokenizer                                             *)
(***************************************************************************)
\* index of the first '=' of a token, 0 when it has none
FirstEq(tok) ==
    IF Contains(tok, EQ) THEN CHOOSE k \in 1..Len(tok) :
                                  tok[k] = EQ /\ \A j \in 1..(k - 1) : tok[j] # EQ
    ELSE 0

\* the field of one delimiter-separated token: none unless the text before
\* its first '=' is a non-empty run of digits
TokenField(tok) ==
    LET e == FirstEq(tok)
    IN  IF e > 1 /\ \A j \in 1..(e - 1) : IsDigit(tok[j])
        THEN <<[tag |-> DigitsToInt(SubSeq(tok, 1, e - 1)),
                raw_value |-> SubSeq(tok, e + 1, Len(tok))]>>
        ELSE <<>>

\* the fields of the delimiter-separated tokens of s from position k on
RECURSIVE TokenFields(_, _)
TokenFields(s, k) ==
    IF k > Len(s) THEN <<>>
    ELSE LET ve == ValueEnd(s, k)
         IN  TokenField(SubSeq(s, k, ve - 1)) \o TokenFields(s, ve + 1)

\* C24: a delimiter-separated token whose tag part (the text before its first
\* '=') is not entirely numeric contributes no field to the flat list; the
\* other tokens are extracted in order.
C24_NonNumericTagDiscarded ==
    (pc = "done" /\ reached \in {"extract", "validate"}) =>
        fields = TokenFields(normalized, 1)

(***************************************************************************)
(* Properties of the views                                                 *)
(***************************************************************************)
\* the flat answer of to_dict: one record per flat field, in order, no group
C25Flat ==
    (op = "to_dict" /\ ~ret.structured) =>
        /\ Len(ret.val.fields) = Len(message.fields)
        /\ \A k \in 1..Len(message.fields) :
              /\ "entries" \notin DOMAIN ret.val.fields[k]
              /\ ret.val.fields[k].tag = message.fields[k].tag
              /\ ret.val.fields[k].value = message.fields[k].raw_value

\* C25: get_structured_fields, to_dict and to_human_readable are read-only
\* views: whatever calls are made, the message's flat field list,
\* raw_message, venue and product_type stay as they were; and
\* to_dict(structured=False) yields one record per flat field, in order, none
\* of them a group.
C25_ReadOnlyViews == [][message' = message]_vars /\ []C25Flat

\* a flat to_dict of a message with a group: three records for [8, 268=1, 269]
\* where the structured view has two
C25_Witness ==
    /\ op = "to_dict" /\ ~ret.structured
    /\ Tags(message.fields) = <<8, 268, 269>>
    /\ message.fields[2].raw_value = <<ZERO + 1>>
    /\ Len(ret.val.fields) = 3
    /\ Len(GetStructuredFields(message.fields)) = 2
    /\ message.venue # <<>>

(***************************************************************************)
(* Termination of get_structured_fields                                    *)
(***************************************************************************)
\* within a call the position never decreases, and an outer-loop iteration
\* (a standalone field, or a count field entering its group) advances it
C26Step ==
    /\ gpc \in {"outer", "inner"} => i' >= i
    /\ (gpc = "outer" /\ gpc' \in {"outer", "inner"}) => i' = i + 1

\* the position stays within the list, and no more structured fields are
\* produced than flat fields were consumed
C26Bound ==
    gpc \in {"outer", "inner", "done"} =>
        /\ i <= Len(msg_fields)
        /\ Len(result) + (IF gpc = "inner" THEN 1 ELSE 0) <= i
        /\ Len(result) <= Len(msg_fields)

\* C26: get_structured_fields terminates on every finite flat field list: a
\* single left-to-right pass in which the position strictly increases on
\* every outer-loop iteration and never decreases, so that at most as many
\* structured fields are produced as there are flat fields.
C26_Terminates ==
    /\ [][C26Step]_vars
    /\ []C26Bound
    /\ (gpc \in {"outer", "inner"}) ~> (gpc = "done")

\* a call over a list with a group returned with fewer structured fields than
\* flat fields
C26_Witness ==
    /\ gpc = "done"
    /\ i = Len(msg_fields)
    /\ Len(msg_fields) = 5
    /\ Len(result) = 2
    /\ result[2].is_group

(***************************************************************************)
(* The declared body length                                                *)
(***************************************************************************)
\* the byte count between the end of the 9= field, its delimiter included,
\* and the start of the last "10="
BodyLengthOf(norm) ==
    LET spans == FindSpans(norm, 1)
    IN  RFind10(norm, Len(norm)) - (spans[2].vend + 1)

\* C27: with strict_body_length enabled, a message whose tag-9 value differs
\* from the byte count between the end of the 9= field and the start of the
\* 10= field fails with a ValidationError, not a ChecksumError.
C27_BodyLengthChecked ==
    (pc = "done" /\ reached = "validate" /\ config.strict_body_length
     /\ EnvelopeOk(fields)
     /\ ~(PyInt(fields[2].raw_value).ok
          /\ PyInt(fields[2].raw_value).val = BodyLengthOf(normalized))) =>
        outcome = "ValidationError"

(***************************************************************************)
(* Nested groups                                                           *)
(***************************************************************************)
\* a FixField of the flat list, as opposed to a StructuredField or a group
IsPlainField(f) == \E k \in 1..Len(msg_fields) : f = msg_fields[k]

\* every field of every entry is a plain field
PlainEntries(g) ==
    \A n \in 1..Len(g.entries) :
        \A k \in 1..Len(g.entries[n].fields) : IsPlainField(g.entries[n].fields[k])

\* a step of the inner loop that consumed a member field put that very field
\* at the end of the entry buffer, and began no other group
C28Step ==
    (gpc = "inner" /\ gpc' = "inner") =>
        /\ current_entry'[Len(current_entry')] = msg_fields[i + 1]
        /\ result' = result
        /\ group'[1].count_field = group[1].count_field

C28Plain ==
    /\ \A k \in 1..Len(result) : result[k].is_group => PlainEntries(result[k].group[1])
    /\ gpc = "inner" =>
          /\ PlainEntries(group[1])
          /\ \A k \in 1..Len(current_entry) : IsPlainField(current_entry[k])

\* C28: reconstruction never builds nested groups: a member tag that is the
\* count of a nested sub-group (802 inside the 453 Party IDs group) is placed
\* in the current entry as an ordinary field, and every field inside an
\* entry is a plain field, never a group.
C28_NoNestedGroups == [][C28Step]_vars /\ []C28Plain

\* 453=2, 448, 802, 523, 448: the entry holds 448 and 802 as plain fields and
\* the nested group's own field 523 ended the body
C28_Witness ==
    /\ gpc = "done"
    /\ Tags(msg_fields) = <<8, 453, 448, 802, 523, 448>>
    /\ msg_fields[2].raw_value = <<ZERO + 2>>
    /\ Len(result) = 4
    /\ result[2].is_group
    /\ result[2].group[1].entries = <<MkEntry(1, SubSeq(msg_fields, 3, 4))>>
    /\ result[3] = MkStandalone(msg_fields[5])

(***************************************************************************)
(* Pipe substitution                                                       *)
(***************************************************************************)
\* the bytes of s other than CR and LF, in order
WithoutBreaks(s) == SelectSeq(s, LAMBDA c : c # CR /\ c # LF)

\* number of pipes in s
PipeCount(s) == Cardinality({k \in 1..Len(s) : s[k] = PIPE})

\* the text to tokenize: line breaks out, and with allow_pipe_delimiter every
\* pipe written as SOH
PipeNormalized ==
    LET st == WithoutBreaks(raw_message)
    IN  IF config.allow_pipe_delimiter
        THEN [k \in 1..Len(st) |-> IF st[k] = PIPE THEN SOH ELSE st[k]]
        ELSE st

\* C29: with allow_pipe_delimiter false no '|' is replaced and a '|' stays
\* inside the field value, only SOH separating fields; with it true every
\* '|' of the CR/LF-stripped message is replaced by SOH before tokenizing and
\* before the checksum is computed; CR and LF are stripped in both modes.
C29_PipeSubstitution ==
    (pc = "done" /\ reached \in {"extract", "validate"}) =>
        /\ normalized = PipeNormalized
        /\ fields = TokensAt(PipeNormalized, 1, SOH)
        /\ ~config.allow_pipe_delimiter => PipeCount(normalized) = PipeCount(raw_message)
        /\ config.allow_pipe_delimiter => PipeCount(normalized) = 0
        /\ outcome = "ChecksumError" =>
              error[1].expected =
                 CalculateChecksum(SubSeq(PipeNormalized, 1,
                                          RFind10(PipeNormalized, Len(PipeNormalized)) - 1))

\* with allow_pipe_delimiter false, a SOH-delimited message was accepted with
\* the pipe kept inside the value of its fourth field
C29_Witness ==
    /\ pc = "done" /\ outcome = "ok"
    /\ ~config.allow_pipe_delimiter /\ config.strict_checksum
    /\ PipeCount(raw_message) = 1
    /\ Len(fields) = 5
    /\ fields[4].raw_value = <<ChA, PIPE, ChE>>

(***************************************************************************)
(* The default dictionary                                                  *)
(***************************************************************************)
\* the dictionaries handed to callers so far
Received == UNION {{callers[t].got[k] : k \in 1..Len(callers[t].got)} : t \in Threads}

\* C30: TagDictionary.default() constructs the default dictionary at most
\* once: under any interleaving of concurrent first calls it is built
\* exactly once and every caller, then and later, receives the same instance.
C30_BuiltOnce ==
    /\ constructed <= 1
    /\ Cardinality(Received) <= 1

====
